---- MODULE Spec2Model ----
(***************************************************************************)
(* DocSherpa (DocGen): source structure extraction, documentation issue    *)
(* analysis and content rewriting.                                         *)
(*                                                                         *)
(* Text is modelled at two levels.  A String is a tuple of one-character   *)
(* strings.  A line of source text is a record                             *)
(*     [ind, pre, body, post]                                              *)
(* that stands for the characters                                          *)
(*     4*ind spaces, pre, body, post                                       *)
(* where pre and post are "" or a triple quote and body is a String with   *)
(* no quote character and no leading or trailing blank.  A line that is    *)
(* only a triple quote is written with the quote in pre.  Content is LF    *)
(* separated: a record [lines, nl] is the text of the lines joined by "\n",*)
(* followed by one more "\n" when nl is TRUE.                              *)
(***************************************************************************)
EXTENDS Integers, Sequences, FiniteSets, TLC

\* ------------------------------------------------------------------ bounds
\* number of top-level chunks a file under rewrite is assembled from
MaxChunks == 2
\* number of entries of an update list
MaxUpdates == 2
\* number of items of a ParsedCode handed to analyze directly
MaxItems == 1

\* ------------------------------------------------------------------ text
NoQ == ""
DQ == "\"\"\""
SQ == "'''"
QuoteChar(q) == IF q = DQ THEN "\"" ELSE "'"

None == [some |-> FALSE, val |-> <<>>]
Some(v) == [some |-> TRUE, val |-> v]

Ln(ind, pre, body, post) == [ind |-> ind, pre |-> pre, body |-> body, post |-> post]

\* a line without quote marks
Code(ind, body) == Ln(ind, NoQ, body, NoQ)

\* the empty line "" and a line of blanks only
EmptyLine == Ln(0, NoQ, <<>>, NoQ)
IsEmptyLine(l) == l = EmptyLine
IsBlankLine(l) == l.pre = NoQ /\ l.body = <<>> /\ l.post = NoQ

RECURSIVE Spaces(_)
Spaces(n) == IF n = 0 THEN <<>> ELSE <<" ", " ", " ", " ">> \o Spaces(n - 1)

QuoteChars(q) == IF q = NoQ THEN <<>> ELSE <<QuoteChar(q), QuoteChar(q), QuoteChar(q)>>

\* the characters of a line
LineChars(l) == Spaces(l.ind) \o QuoteChars(l.pre) \o l.body \o QuoteChars(l.post)

\* str::trim() of a line: the leading blanks go (body has no outer blanks)
Trim(l) == [l EXCEPT !.ind = 0]

\* str::starts_with / str::ends_with of a triple quote, on a trimmed line
StartsWith(l, q) == l.pre = q
EndsWith(l, q) == l.post = q \/ (l.pre = q /\ l.body = <<>> /\ l.post = NoQ)

\* [&str]::join("\n")
RECURSIVE JoinChars(_)
JoinChars(ls) ==
    IF ls = <<>> THEN <<>>
    ELSE IF Len(ls) = 1 THEN LineChars(ls[1])
    ELSE LineChars(ls[1]) \o <<"\n">> \o JoinChars(Tail(ls))

\* A text as the pieces between its "\n" characters, and back.
Pieces(c) == IF c.nl THEN c.lines \o <<EmptyLine>> ELSE c.lines
FromPieces(p) ==
    IF p = <<>> THEN [lines |-> <<>>, nl |-> FALSE]
    ELSE IF IsEmptyLine(p[Len(p)])
         THEN IF Len(p) = 1 THEN [lines |-> <<>>, nl |-> FALSE]
              ELSE [lines |-> SubSeq(p, 1, Len(p) - 1), nl |-> TRUE]
         ELSE [lines |-> p, nl |-> FALSE]

\* str::lines()
Lines(c) == c.lines

\* the pieces of [..].join("\n"): an empty list joins to the empty string
Joined(ls) == IF ls = <<>> THEN <<EmptyLine>> ELSE ls

ContentChars(c) == JoinChars(Pieces(c))

\* ------------------------------------------------------------------ source text
\* Bodies of the lines the modelled files are written with.
sPass == <<"p", "a", "s", "s">>
sAssign == <<"x", " ", "=", " ", "1">>
sComment == <<"#", " ", "n", "o", "t", "e">>
sDefF == <<"d", "e", "f", " ", "f", "(", ")", ":">>
sDefG == <<"d", "e", "f", " ", "g", "(", "a", ",", " ", "b", ")", ":">>
sDefR == <<"d", "e", "f", " ", "r", "(", "a", ")", " ", "-", ">", " ", "i", "n", "t", ":">>
sDefM == <<"d", "e", "f", " ", "m", "(", "s", "e", "l", "f", ",", " ", "a", ")", ":">>
sDefS == <<"d", "e", "f", " ", "s", "(", "s", "e", "l", "f", ",", " ", "/", ")", ":">>
sDefI == <<"d", "e", "f", " ", "i", "(", ")", ":", " ", "p", "a", "s", "s">>
sDefD == <<"d", "e", "f", " ", "d", "(", "a", ",", " ", "b", "=", "1", ")", ":">>
sDefH == <<"d", "e", "f", " ", "h", "(">>
sHeaderEnd == <<"a", ")", ":">>
sDefK == <<"d", "e", "f", " ", "k", "(", "*", ",", " ", "a", ",", " ", "b", "=", "1", ")", ":">>
sDefV == <<"d", "e", "f", " ", "v", "(", "*", "a", ",", " ", "*", "*", "b", ")", ":">>
sClassFoo == <<"c", "l", "a", "s", "s", " ", "F", "o", "o", ":">>
sDoc == <<"D", "o", "c">>
sDocA == <<"D", "o", "c", " ", "a">>
sNew == <<"N", "e", "w">>
sMore == <<"m", "o", "r", "e">>
sReturnsAB == <<"R", "e", "t", "u", "r", "n", "s", " ", "a", " ", "b">>

nF == <<"f">>
nG == <<"g">>
nR == <<"r">>
nM == <<"m">>
nS == <<"s">>
nI == <<"i">>
nD == <<"d">>
nH == <<"h">>
nK == <<"k">>
nV == <<"v">>
nFoo == <<"F", "o", "o">>
pA == <<"a">>
pB == <<"b">>
pSelf == <<"s", "e", "l", "f">>
tInt == <<"i", "n", "t">>

Letters == {"a", "b", "c", "d", "e", "f", "g", "h", "i", "j", "k", "l", "m", "n", "o",
            "p", "q", "r", "s", "t", "u", "v", "w", "x", "y", "z",
            "A", "B", "D", "F", "M", "N", "R"}

\* ------------------------------------------------------------------ the Python grammar
\* What rustpython_parser::parser::parse_program reads from the lines above.
\* ast::Arguments of a function header
\* (defaults: the default values of the last positional parameters;
\* kw_defaults: the default value, if any, of each keyword-only parameter)
Arguments(posonly, args, kwonly, vararg, kwarg) ==
    [posonlyargs |-> posonly, args |-> args, kwonlyargs |-> kwonly,
     vararg |-> vararg, kwarg |-> kwarg, defaults |-> <<>>, kw_defaults |-> <<>>]
Defaulted(arguments, defaults, kw_defaults) ==
    [arguments EXCEPT !.defaults = defaults, !.kw_defaults = kw_defaults]
NoArguments == Arguments(<<>>, <<>>, <<>>, None, None)

\* a compound-statement header: its kind, name, arguments, return annotation,
\* and whether its body stands on the header line
Header(kind, name, args, returns, inline) ==
    [kind |-> kind, name |-> name, args |-> args, returns |-> returns, inline |-> inline]

HeaderOf(body) ==
    CASE body = sDefF -> Header("def", nF, NoArguments, None, FALSE)
      [] body = sDefG -> Header("def", nG, Arguments(<<>>, <<pA, pB>>, <<>>, None, None), None, FALSE)
      [] body = sDefR -> Header("def", nR, Arguments(<<>>, <<pA>>, <<>>, None, None), Some(tInt), FALSE)
      [] body = sDefM -> Header("def", nM, Arguments(<<>>, <<pSelf, pA>>, <<>>, None, None), None, FALSE)
      [] body = sDefS -> Header("def", nS, Arguments(<<pSelf>>, <<>>, <<>>, None, None), None, FALSE)
      [] body = sDefI -> Header("def", nI, NoArguments, None, TRUE)
      [] body = sDefH -> Header("def", nH, Arguments(<<>>, <<pA>>, <<>>, None, None), None, FALSE)
      [] body = sDefD -> Header("def", nD, Defaulted(Arguments(<<>>, <<pA, pB>>, <<>>, None, None),
                                                     <<(<<"1">>)>>, <<>>), None, FALSE)
      [] body = sDefK -> Header("def", nK, Defaulted(Arguments(<<>>, <<>>, <<pA, pB>>, None, None),
                                                     <<>>, <<None, Some(<<"1">>)>>), None, FALSE)
      [] body = sDefV -> Header("def", nV, Arguments(<<>>, <<>>, <<>>, Some(pA), Some(pB)),
                                None, FALSE)
      [] body = sClassFoo -> Header("class", nFoo, NoArguments, None, FALSE)
      [] OTHER -> Header("none", <<>>, NoArguments, None, FALSE)

\* an expression statement that is a single name
IsName(body) ==
    /\ body # <<>>
    /\ \A i \in 1..Len(body) : body[i] \in Letters
    /\ body # sPass

IsSimpleStmt(body) == body = sPass \/ body = sAssign \/ IsName(body)
IsComment(body) == body # <<>> /\ body[1] = "#"

\* A logical statement: kind "def", "class", "simple" or "str" (an expression
\* statement that is one string literal, val its value), the indentation and
\* the rows of its first and last line.
Stmt(kind, ind, row, last, body, val) ==
    [kind |-> kind, ind |-> ind, row |-> row, last |-> last, body |-> body, val |-> val]

LexError == [ok |-> FALSE, stmts |-> <<>>]

\* Inside a string literal opened with quote q: the row that closes it and the
\* characters up to the closing quote; row 0 when what follows the closing
\* quote is no end of statement, or the text ends first.
RECURSIVE ScanString(_, _, _, _)
ScanString(lines, i, q, acc) ==
    IF i > Len(lines) THEN [row |-> 0, val |-> <<>>]
    ELSE LET l == lines[i] IN
         IF l.pre = q
         THEN IF l.body = <<>> /\ l.post = NoQ
              THEN [row |-> i, val |-> acc \o <<"\n">> \o Spaces(l.ind)]
              ELSE [row |-> 0, val |-> <<>>]
         ELSE IF l.post = q
              THEN [row |-> i, val |-> acc \o <<"\n">> \o Spaces(l.ind)
                                       \o QuoteChars(l.pre) \o l.body]
              ELSE ScanString(lines, i + 1, q, acc \o <<"\n">> \o LineChars(l))

\* The logical statements of the lines from row i on.
RECURSIVE Lex(_, _, _)
Lex(lines, i, acc) ==
    IF i > Len(lines) THEN [ok |-> TRUE, stmts |-> acc]
    ELSE LET l == lines[i] IN
         IF l.pre # NoQ
         THEN IF l.post = l.pre
              THEN Lex(lines, i + 1, Append(acc, Stmt("str", l.ind, i, i, <<>>, l.body)))
              ELSE LET s == ScanString(lines, i + 1, l.pre, l.body \o QuoteChars(l.post)) IN
                   IF s.row = 0 THEN LexError
                   ELSE Lex(lines, s.row + 1, Append(acc, Stmt("str", l.ind, i, s.row, <<>>, s.val)))
         ELSE IF l.post # NoQ THEN LexError
         ELSE IF l.body = <<>> \/ IsComment(l.body) THEN Lex(lines, i + 1, acc)
         ELSE IF l.body = sDefH
              THEN IF i < Len(lines) /\ lines[i + 1] = Code(lines[i + 1].ind, sHeaderEnd)
                   THEN Lex(lines, i + 2, Append(acc, Stmt("def", l.ind, i, i + 1, l.body, <<>>)))
                   ELSE LexError
         ELSE IF HeaderOf(l.body).kind # "none"
              THEN Lex(lines, i + 1, Append(acc, Stmt(HeaderOf(l.body).kind, l.ind, i, i, l.body, <<>>)))
         ELSE IF IsSimpleStmt(l.body)
              THEN Lex(lines, i + 1, Append(acc, Stmt("simple", l.ind, i, i, l.body, <<>>)))
         ELSE LexError

OpensBlock(s) == s.kind \in {"def", "class"} /\ ~HeaderOf(s.body).inline

\* INDENT/DEDENT: a header is followed by a deeper statement, any other
\* statement by one at the indentation of an enclosing block.
RECURSIVE PopTo(_, _)
PopTo(stack, ind) ==
    IF stack # <<>> /\ stack[Len(stack)] > ind
    THEN PopTo(SubSeq(stack, 1, Len(stack) - 1), ind)
    ELSE stack

RECURSIVE WellIndented(_, _, _, _)
WellIndented(stmts, i, stack, opened) ==
    IF i > Len(stmts) THEN ~opened
    ELSE LET s == stmts[i] IN
         IF opened
         THEN /\ s.ind > stack[Len(stack)]
              /\ WellIndented(stmts, i + 1, Append(stack, s.ind), OpensBlock(s))
         ELSE LET st == PopTo(stack, s.ind) IN
              /\ st # <<>>
              /\ st[Len(st)] = s.ind
              /\ WellIndented(stmts, i + 1, st, OpensBlock(s))

\* parse_program: the statements, or a failure
ParseProgram(c) ==
    LET lx == Lex(Lines(c), 1, <<>>) IN
    IF lx.ok /\ WellIndented(lx.stmts, 1, <<0>>, FALSE) THEN lx ELSE LexError

\* the header statement whose block directly holds statement p (0: the module)
Encloser(stmts, p) ==
    LET above == {q \in 1..(p - 1) : stmts[q].ind < stmts[p].ind} IN
    IF above = {} THEN 0 ELSE CHOOSE q \in above : \A r \in above : r <= q

\* body.first() of a header statement: the statement after it
BodyFirst(stmts, p) ==
    IF HeaderOf(stmts[p].body).inline THEN Stmt("simple", stmts[p].ind, stmts[p].row, stmts[p].row, sPass, <<>>)
    ELSE stmts[p + 1]

\* ------------------------------------------------------------------ PythonParser
InSeq(x, sq) == \E i \in 1..Len(sq) : sq[i] = x
NotSelf(p) == p # pSelf

\* extract_docstring: the body's first statement when it is a string constant
extract_docstring(body_first) ==
    IF body_first.kind = "str" THEN Some(body_first.val) ELSE None

\* extract_parameters
extract_parameters(args) ==
    LET self_first == IF InSeq(pSelf, args.posonlyargs) THEN <<pSelf>> ELSE <<>>
        positional == self_first \o SelectSeq(args.args, NotSelf)
        NotListed(p) == p # pSelf /\ ~InSeq(p, positional)
        posonly == SelectSeq(args.posonlyargs, NotListed)
        kwonly == [i \in 1..Len(args.kwonlyargs) |-> args.kwonlyargs[i] \o <<"=">>]
        vararg == IF args.vararg.some THEN <<(<<"*">> \o args.vararg.val)>> ELSE <<>>
        kwarg == IF args.kwarg.some THEN <<(<<"*", "*">> \o args.kwarg.val)>> ELSE <<>>
    IN positional \o posonly \o kwonly \o vararg \o kwarg

\* extract_return_type: present exactly when the header has an annotation
extract_return_type(returns) == returns

\* extract_indentation: the leading blanks of the row, in units of four
extract_indentation(c, line_number) ==
    IF line_number <= Len(Lines(c)) THEN Lines(c)[line_number].ind ELSE 0

CodeItem(item_type, name, line_number, docstring, parent, parameters, returns, indentation) ==
    [item_type |-> item_type, name |-> name, line_number |-> line_number,
     existing_docstring |-> docstring, parent |-> parent, parameters |-> parameters,
     returns |-> returns, indentation |-> indentation]

\* faulty variant: a method's line is counted from its class
ItemOf_from_class(c, stmts, p) ==
    LET s == stmts[p]
        h == HeaderOf(s.body)
        e == Encloser(stmts, p)
    IN IF h.kind = "class"
       THEN CodeItem("class", h.name, s.row, extract_docstring(BodyFirst(stmts, p)),
                     None, <<>>, None, extract_indentation(c, s.row))
       ELSE CodeItem(IF e = 0 THEN "function" ELSE "method", h.name,
                     IF e = 0 THEN s.row ELSE s.row - stmts[e].row,
                     extract_docstring(BodyFirst(stmts, p)),
                     IF e = 0 THEN None ELSE Some(HeaderOf(stmts[e].body).name),
                     extract_parameters(h.args), extract_return_type(h.returns),
                     extract_indentation(c, s.row))

\* the item parse pushes for header statement p
ItemOf(c, stmts, p) ==
    LET s == stmts[p]
        h == HeaderOf(s.body)
        e == Encloser(stmts, p)
    IN IF h.kind = "class"
       THEN CodeItem("class", h.name, s.row, extract_docstring(BodyFirst(stmts, p)),
                     None, <<>>, None, extract_indentation(c, s.row))
       ELSE CodeItem(IF e = 0 THEN "function" ELSE "method", h.name, s.row,
                     extract_docstring(BodyFirst(stmts, p)),
                     IF e = 0 THEN None ELSE Some(HeaderOf(stmts[e].body).name),
                     extract_parameters(h.args), extract_return_type(h.returns),
                     extract_indentation(c, s.row))

\* statement p yields an item: a module-level def or class, or a def that is
\* a statement of a module-level class body
IsItem(stmts, p) ==
    LET e == Encloser(stmts, p) IN
    \/ e = 0 /\ stmts[p].kind \in {"def", "class"}
    \/ e # 0 /\ stmts[p].kind = "def" /\ stmts[e].kind = "class" /\ Encloser(stmts, e) = 0

\* the statements that yield an item, in the order parse pushes the items
RECURSIVE ItemStmts(_, _)
ItemStmts(stmts, p) ==
    IF p > Len(stmts) THEN <<>>
    ELSE (IF IsItem(stmts, p) THEN <<p>> ELSE <<>>) \o ItemStmts(stmts, p + 1)

CollectItems(c, stmts) ==
    LET at == ItemStmts(stmts, 1) IN [k \in 1..Len(at) |-> ItemOf(c, stmts, at[k])]

\* faulty variant: a text that has no syntax tree parses to no items
parse_lenient(c) ==
    LET prog == ParseProgram(c) IN
    [ok |-> TRUE, items |-> IF prog.ok THEN CollectItems(c, prog.stmts) ELSE <<>>]

\* parse: ParsingError, or the items in the order they are pushed
parse(c) ==
    LET prog == ParseProgram(c) IN
    IF ~prog.ok THEN [ok |-> FALSE, items |-> <<>>]
    ELSE [ok |-> TRUE, items |-> CollectItems(c, prog.stmts)]

\* ------------------------------------------------------------------ update_content
UpdatedDocstring(item_index, new_docstring, indentation) ==
    [item_index |-> item_index, new_docstring |-> new_docstring, indentation |-> indentation]

\* the element of a set of one element; TheOne({F(x) : x \in {e}}) is F(e)
TheOne(S) == CHOOSE x \in S : TRUE

InRange(items, u) == u.item_index < Len(items)

\* the comparator of sort_by: b_line.cmp(&a_line), larger line numbers first
LineOf(items, u) == items[u.item_index + 1].line_number

\* slice::sort_by is stable: an entry goes behind every entry that does not
\* have to come after it
RECURSIVE InsertSorted(_, _, _)
InsertSorted(items, sorted, u) ==
    IF sorted = <<>> THEN <<u>>
    ELSE IF LineOf(items, Head(sorted)) >= LineOf(items, u)
         THEN <<Head(sorted)>> \o InsertSorted(items, Tail(sorted), u)
         ELSE <<u>> \o sorted

RECURSIVE SortedFrom(_, _, _)
SortedFrom(items, updates, acc) ==
    IF updates = <<>> THEN acc
    ELSE SortedFrom(items, Tail(updates), InsertSorted(items, acc, Head(updates)))

\* faulty variant: smaller line numbers first
sort_updates_ascending(items, updates) ==
    LET sorted == SortedFrom(items, updates, <<>>) IN
    [i \in 1..Len(sorted) |-> sorted[Len(sorted) + 1 - i]]

\* faulty variant: the updates are applied in the order given
sort_updates_as_given(items, updates) == updates

sort_updates(items, updates) == SortedFrom(items, updates, <<>>)

\* sort_by calls the comparator on every entry of a list of two or more; the
\* comparator indexes parsed_code.items without a bounds check
ComparatorPanics(items, updates) ==
    Len(updates) >= 2 /\ \E k \in 1..Len(updates) : ~InRange(items, updates[k])

\* the row where the docstring found under the definition row ends
\* (docstring_end_line; the definition row itself when the scan finds no end)
DocstringEndRow(lines, row) ==
    LET first == Trim(lines[row + 1])
        ends == {i \in (row + 2)..Len(lines) :
                    EndsWith(Trim(lines[i]), DQ) \/ EndsWith(Trim(lines[i]), SQ)}
    IN IF EndsWith(first, DQ) /\ StartsWith(first, DQ) THEN row + 1
       ELSE IF ends # {} THEN CHOOSE i \in ends : \A j \in ends : i <= j
       ELSE row

has_existing_docstring(lines, row) ==
    /\ row + 1 <= Len(lines)
    /\ \/ StartsWith(Trim(lines[row + 1]), DQ)
       \/ StartsWith(Trim(lines[row + 1]), SQ)

\* format!("{}    {}", indentation, line) for every line of new_docstring
indented_docstring(indentation, new_docstring) ==
    [i \in 1..Len(new_docstring) |->
        [new_docstring[i] EXCEPT !.ind = indentation + 1 + new_docstring[i].ind]]

\* the text after replacing the docstring under row
ReplaceDocstring(nc, row, doc) ==
    LET lines == Lines(nc)
        end == DocstringEndRow(lines, row)
    IN FromPieces(SubSeq(lines, 1, row) \o Joined(doc)
                  \o Joined(SubSeq(lines, end + 1, Len(lines))))

\* the text after splitting behind the definition row and putting the
\* docstring there
InsertDocstring(nc, row, doc) ==
    LET p == Pieces(nc) IN
    FromPieces(SubSeq(p, 1, row) \o Joined(doc) \o SubSeq(p, row + 1, Len(p)))

\* one pass of the loop body for an update whose index is in range
ApplyUpdate(nc, item, update) ==
    LET lines == Lines(nc)
        row == item.line_number
        doc == indented_docstring(item.indentation, update.new_docstring)
    IN IF row > Len(lines) THEN [kind |-> "UpdateError", content |-> nc]
       ELSE IF has_existing_docstring(lines, row)
            THEN [kind |-> "Ok", content |-> ReplaceDocstring(nc, row, doc)]
            ELSE [kind |-> "Ok", content |-> InsertDocstring(nc, row, doc)]

NoContent == [lines |-> <<>>, nl |-> FALSE]
Outcome(kind, c) == [kind |-> kind, content |-> c]

RECURSIVE ApplyAll(_, _, _)
ApplyAll(nc, items, sorted) ==
    IF sorted = <<>> THEN Outcome("Ok", nc)
    ELSE IF ~InRange(items, Head(sorted)) THEN Outcome("Panic", NoContent)
    ELSE LET r == ApplyUpdate(nc, items[Head(sorted).item_index + 1], Head(sorted)) IN
         IF r.kind # "Ok" THEN Outcome(r.kind, NoContent)
         ELSE ApplyAll(r.content, items, Tail(sorted))

\* update_content as a function: Ok with the new text, ParsingError,
\* UpdateError, or a panic (index out of bounds)
update_content(c, updated_docstrings) ==
    TheOne({IF ~parsed.ok THEN Outcome("ParsingError", NoContent)
            ELSE IF ComparatorPanics(parsed.items, updated_docstrings)
            THEN Outcome("Panic", NoContent)
            ELSE ApplyAll(c, parsed.items, sort_updates(parsed.items, updated_docstrings)) :
            parsed \in {parse(c)}})

\* ------------------------------------------------------------------ docstring.rs
\* the placeholder threshold of is_likely_outdated
MinDocLen == 10

sReturn == <<"r", "e", "t", "u", "r", "n">>
pThis == <<"t", "h", "i", "s">>

\* str::contains
Contains(hay, needle) ==
    \E i \in 0..(Len(hay) - Len(needle)) : SubSeq(hay, i + 1, i + Len(needle)) = needle

\* str::trim_matches(|c| c == '*' || c == '=')
RECURSIVE trim_matches(_)
trim_matches(p) ==
    IF p = <<>> THEN p
    ELSE IF p[1] \in {"*", "="} THEN trim_matches(Tail(p))
    ELSE IF p[Len(p)] \in {"*", "="} THEN trim_matches(SubSeq(p, 1, Len(p) - 1))
    ELSE p

\* str::to_lowercase, on the letters of the modelled texts
LowerChar(ch) ==
    CASE ch = "A" -> "a" [] ch = "B" -> "b" [] ch = "D" -> "d" [] ch = "F" -> "f"
      [] ch = "M" -> "m" [] ch = "N" -> "n" [] ch = "R" -> "r" [] OTHER -> ch
to_lowercase(str) == [i \in 1..Len(str) |-> LowerChar(str[i])]

\* str::trim
IsWhite(ch) == ch \in {" ", "\n"}
RECURSIVE trim(_)
trim(str) ==
    IF str = <<>> THEN str
    ELSE IF IsWhite(str[1]) THEN trim(Tail(str))
    ELSE IF IsWhite(str[Len(str)]) THEN trim(SubSeq(str, 1, Len(str) - 1))
    ELSE str

\* the parameter loop of is_likely_outdated: TRUE when it returns early
RECURSIVE ParamNotMentioned(_, _)
ParamNotMentioned(parameters, docstring) ==
    IF parameters = <<>> THEN FALSE
    ELSE IF Head(parameters) = pSelf THEN ParamNotMentioned(Tail(parameters), docstring)
    ELSE IF ~Contains(docstring, trim_matches(Head(parameters))) THEN TRUE
    ELSE ParamNotMentioned(Tail(parameters), docstring)

\* faulty variant: only the parameter loop
is_likely_outdated_params_only(item, docstring) ==
    ParamNotMentioned(item.parameters, docstring)

is_likely_outdated(item, docstring) ==
    IF ParamNotMentioned(item.parameters, docstring) THEN TRUE
    ELSE IF item.returns.some /\ ~Contains(to_lowercase(docstring), sReturn) THEN TRUE
    ELSE IF Len(trim(docstring)) < MinDocLen THEN TRUE
    ELSE FALSE

\* faulty variant: the issue carries the item's ordinal, counted from one
DocstringIssue_ordinal(item, issue_type, item_index) ==
    [item_type |-> item.item_type, name |-> item.name, line_number |-> item.line_number,
     issue_type |-> issue_type, item_index |-> item_index + 1]

DocstringIssue(item, issue_type, item_index) ==
    [item_type |-> item.item_type, name |-> item.name, line_number |-> item.line_number,
     issue_type |-> issue_type, item_index |-> item_index]

\* analyze: the loop over parsed_code.items.iter().enumerate(), from index on
RECURSIVE AnalyzeFrom(_, _)
AnalyzeFrom(items, index) ==
    IF index >= Len(items) THEN <<>>
    ELSE LET item == items[index + 1] IN
         IF ~item.existing_docstring.some
         THEN <<DocstringIssue(item, "missing", index)>> \o AnalyzeFrom(items, index + 1)
         ELSE IF is_likely_outdated(item, item.existing_docstring.val)
         THEN <<DocstringIssue(item, "outdated", index)>> \o AnalyzeFrom(items, index + 1)
         ELSE AnalyzeFrom(items, index + 1)

\* faulty variant: items without a docstring are passed over
analyze_documented_only(parsed) ==
    SelectSeq(AnalyzeFrom(parsed.items, 0), LAMBDA issue : issue.issue_type # "missing")

analyze(parsed) == AnalyzeFrom(parsed.items, 0)

\* ------------------------------------------------------------------ inputs

\* a function without a docstring
kPlainDef == <<Code(0, sDefF), Code(1, sPass)>>
\* a function with a one-line docstring in double quotes
kDocDef == <<Code(0, sDefG), Ln(1, DQ, sDocA, DQ), Code(1, sPass)>>
\* a function with a one-line docstring in single quotes
kSingleQuoteDef == <<Code(0, sDefF), Ln(1, SQ, sDoc, SQ), Code(1, sPass)>>
\* a function with a return annotation and a docstring over two lines
kMultiDef == <<Code(0, sDefR), Ln(1, DQ, sDoc, NoQ), Ln(1, NoQ, sMore, DQ), Code(1, sPass)>>
\* a class with one method, neither documented
kClass == <<Code(0, sClassFoo), Code(1, sDefM), Code(2, sPass)>>
\* a function whose docstring names its parameters, at module level
kGoodDef == <<Code(0, sDefG), Ln(1, DQ, sReturnsAB, DQ), Code(1, sPass)>>
\* a line that is no statement
kJunk == <<Code(0, sDocA)>>

ChunkSet == {kPlainDef, kDocDef, kSingleQuoteDef, kMultiDef, kClass, kGoodDef, kJunk}

RECURSIVE SeqsUpTo(_, _)
SeqsUpTo(S, n) ==
    IF n = 0 THEN {<<>>}
    ELSE LET shorter == SeqsUpTo(S, n - 1) IN
         shorter \cup {Append(q, x) : q \in {r \in shorter : Len(r) = n - 1}, x \in S}

RECURSIVE Concat(_)
Concat(chunks) == IF chunks = <<>> THEN <<>> ELSE Head(chunks) \o Concat(Tail(chunks))

\* a file: the chunks one after the other, with a final newline
FileOf(chunks) == FromPieces(Concat(chunks) \o <<EmptyLine>>)

Files == {FileOf(cs) : cs \in SeqsUpTo(ChunkSet, MaxChunks)}

\* Files that open with a function whose docstring has its quotes on lines of
\* their own, or stands behind a comment line or an empty line.
kAloneDef ==
    <<Code(0, sDefF), Ln(1, DQ, <<>>, NoQ), Code(1, sDoc), Ln(1, DQ, <<>>, NoQ), Code(1, sPass)>>
kCommentDocDef == <<Code(0, sDefG), Code(1, sComment), Ln(1, DQ, sDocA, DQ), Code(1, sPass)>>
kGapDocDef == <<Code(0, sDefG), EmptyLine, Ln(1, DQ, sDocA, DQ), Code(1, sPass)>>
DocFiles ==
    {FileOf(<<k>> \o rest) :
        k \in {kAloneDef, kCommentDocDef, kGapDocDef},
        rest \in SeqsUpTo({kPlainDef}, MaxChunks - 1)}

\* documentation texts as the generation clients hand them over (quoted), over
\* one line and over two, and a bare text
tQuoted == <<Ln(0, DQ, sNew, DQ)>>
tQuotedTwo == <<Ln(0, DQ, sNew, NoQ), Ln(0, NoQ, sMore, DQ)>>
tBare == <<Code(0, sNew)>>

\* the client's format!("\"\"\"{}\"\"\"", text)
Quoted(text) ==
    [i \in 1..Len(text) |->
        [text[i] EXCEPT !.pre = IF i = 1 THEN DQ ELSE @,
                        !.post = IF i = Len(text) THEN DQ ELSE @]]

DocTexts == {tQuoted, tBare}

\* The parse the updates of a call were derived from: the content itself, or
\* an earlier revision of the file (a class with a method, then a function).
StaleFile == FileOf(<<kClass, kPlainDef>>)
Origins(c) == {c, StaleFile}

\* the updates a caller can derive from the items of a parse
UpdatesFrom(items) ==
    {UpdatedDocstring(i - 1, t, items[i].indentation) : i \in 1..Len(items), t \in DocTexts}

\* Items handed to analyze directly.  A docstring is "Doc" followed by any of
\* " a", " b", " Returns" and a filler, or one of three special texts; a
\* parameter list is one of those the extractors can emit.
sFiller == <<" ", "i", "i", "i", "i", "i", "i", "i", "i">>
dSelf == <<"D", "o", "c", " ", "s", "e", "l", "f", " ", "t", "h", "i", "s", " ", "i", "i", "i", "i">>
dBlanks == <<"D", "o", "c", " ", "a", " ", " ", " ", " ", " ">>
dRest == <<"D", "o", "c", " ", ".", ".", ".", "a", " ", "i", "i", "i", "i", "i", "i">>

DocOf(parts) ==
    sDoc \o (IF "a" \in parts THEN <<" ", "a">> ELSE <<>>)
         \o (IF "b" \in parts THEN <<" ", "b">> ELSE <<>>)
         \o (IF "ret" \in parts THEN <<" ", "R", "e", "t", "u", "r", "n", "s">> ELSE <<>>)
         \o (IF "fill" \in parts THEN sFiller ELSE <<>>)

AnalyzerDocs == {DocOf(parts) : parts \in SUBSET {"a", "b", "ret", "fill"}}
                    \cup {dSelf, dBlanks, dRest}

AnalyzerParams ==
    {<<>>, <<pA, pB>>, <<pSelf, pA>>, <<pSelf>>, <<pThis>>,
     <<(pA \o <<"=">>), (<<"*">> \o pB)>>, <<(<<"*", "*">> \o pA)>>,
     <<(<<".", ".", ".">> \o pA)>>}

AnalyzerItems ==
    {CodeItem("function", nF, 1, d, None, ps, r, 0) :
        d \in {Some(t) : t \in AnalyzerDocs} \cup {None},
        ps \in AnalyzerParams, r \in {None, Some(tInt)}}

\* raw texts the generation service answers with
Responses == {tBare, <<Code(0, sNew), Code(0, sMore)>>}

\* ------------------------------------------------------------------ Rust and JavaScript text
\* Lines of Rust and JavaScript text are lines with no quote marks: pre and
\* post are empty and the body holds every character behind the indentation
\* (the body of a JSDoc continuation line begins with one blank).
sFnF == <<"f", "n", " ", "f", "(", ")", " ", "{", "}">>
sFnG == <<"f", "n", " ", "g", "(", ")", " ", "{", "}">>
sUse == <<"u", "s", "e", " ", "x", ";">>
sSlashes == <<"/", "/", "/">>
sRustDoc == <<"/", "/", "/", " ", "D", "o", "c">>
sRustMore == <<"/", "/", "/", " ", "m", "o", "r", "e">>
sFunctionF == <<"f", "u", "n", "c", "t", "i", "o", "n", " ", "f", "(", ")", " ", "{", "}">>
sFunctionG == <<"f", "u", "n", "c", "t", "i", "o", "n", " ", "g", "(", ")", " ", "{", "}">>
sLet == <<"l", "e", "t", " ", "x", ";">>
sNote == <<"/", "/", " ", "n", "o", "t", "e">>
sOpen == <<"/", "*", "*">>
sClose == <<"*", "/">>
sStar == <<"*">>
sJsDocOne == <<"/", "*", "*", " ", "D", "o", "c", " ", "*", "/">>
sJsDocMid == <<" ", "*", " ", "D", "o", "c">>
sJsDocEnd == <<" ", "*", "/">>

\* str::starts_with / str::ends_with
HasPrefix(str, p) == Len(str) >= Len(p) /\ SubSeq(str, 1, Len(p)) = p
HasSuffix(str, p) == Len(str) >= Len(p) /\ SubSeq(str, Len(str) - Len(p) + 1, Len(str)) = p

\* str::trim_start_matches / str::trim_end_matches of a pattern
RECURSIVE trim_start_matches(_, _)
trim_start_matches(str, p) ==
    IF HasPrefix(str, p) THEN trim_start_matches(SubSeq(str, Len(p) + 1, Len(str)), p)
    ELSE str
RECURSIVE trim_end_matches(_, _)
trim_end_matches(str, p) ==
    IF HasSuffix(str, p) THEN trim_end_matches(SubSeq(str, 1, Len(str) - Len(p)), p)
    ELSE str

\* [String]::join("\n")
RECURSIVE JoinText(_)
JoinText(texts) ==
    IF texts = <<>> THEN <<>>
    ELSE IF Len(texts) = 1 THEN texts[1]
    ELSE texts[1] \o <<"\n">> \o JoinText(Tail(texts))

\* line.trim() of a line of text
TrimmedLine(l) == trim(LineChars(l))

\* The function items tree-sitter's function query captures in the modelled
\* texts: a function written on one line, named by its header.
FunctionName(lang, text) ==
    CASE lang = "Rust" /\ text = sFnF -> nF
      [] lang = "Rust" /\ text = sFnG -> nG
      [] lang = "JavaScript" /\ text = sFunctionF -> nF
      [] lang = "JavaScript" /\ text = sFunctionG -> nG
      [] OTHER -> <<>>

FunctionRows(lang, lines) ==
    SelectSeq([i \in 1..Len(lines) |-> i],
              LAMBDA i : FunctionName(lang, TrimmedLine(lines[i])) # <<>>)

\* ------------------------------------------------------------------ RustParser
\* extract_doc_comment, the loop from the line above the node upwards: the
\* texts of the /// lines met before the first line of code, in file order
RECURSIVE DocCommentAbove(_, _, _)
DocCommentAbove(lines, current_line, comments) ==
    IF current_line = 0 THEN comments
    ELSE LET line == TrimmedLine(lines[current_line]) IN
         IF HasPrefix(line, sSlashes)
         THEN DocCommentAbove(lines, current_line - 1,
                              <<trim(trim_start_matches(line, sSlashes))>> \o comments)
         ELSE IF line = <<>> THEN DocCommentAbove(lines, current_line - 1, comments)
         ELSE comments

extract_doc_comment(lines, node_line_number) ==
    LET comments == DocCommentAbove(lines, node_line_number - 1, <<>>) IN
    IF comments = <<>> THEN None ELSE Some(JoinText(comments))

\* RustParser::parse: tree-sitter builds a tree for any text
rust_parse(c) ==
    LET rows == FunctionRows("Rust", Lines(c)) IN
    [ok |-> TRUE,
     items |-> [k \in 1..Len(rows) |->
                   CodeItem("function", FunctionName("Rust", TrimmedLine(Lines(c)[rows[k]])),
                            rows[k], extract_doc_comment(Lines(c), rows[k]), None, <<>>, None,
                            extract_indentation(c, rows[k]))]]

\* update_content, lines 386-395: the topmost /// line the scan upwards from
\* the definition row reaches (0: has_existing_docstring stays false)
RECURSIVE DocStartRow(_, _, _)
DocStartRow(lines, i, doc_start_line) ==
    IF i = 0 THEN doc_start_line
    ELSE LET line == TrimmedLine(lines[i]) IN
         IF HasPrefix(line, sSlashes) THEN DocStartRow(lines, i - 1, i)
         ELSE IF line # <<>> THEN doc_start_line
         ELSE DocStartRow(lines, i - 1, doc_start_line)

\* lines 397-405: the last /// line above the definition row
DocEndRow(lines, doc_start_line, row) ==
    LET found == {i \in doc_start_line..(row - 1) : HasPrefix(TrimmedLine(lines[i]), sSlashes)}
    IN CHOOSE i \in found : \A j \in found : j <= i

\* faulty variant: an empty line of the text is passed on as it is
rust_doc_lines_blank(indentation, new_docstring) ==
    [i \in 1..Len(new_docstring) |->
        LET trimmed == TrimmedLine(new_docstring[i]) IN
        IF trimmed # <<>> THEN Ln(indentation, NoQ, sSlashes \o <<" ">> \o trimmed, NoQ)
        ELSE EmptyLine]

\* lines 408-418: format!("{}/// {}", indentation, trimmed), format!("{}///", indentation)
rust_doc_lines(indentation, new_docstring) ==
    [i \in 1..Len(new_docstring) |->
        LET trimmed == TrimmedLine(new_docstring[i]) IN
        IF trimmed # <<>> THEN Ln(indentation, NoQ, sSlashes \o <<" ">> \o trimmed, NoQ)
        ELSE Ln(indentation, NoQ, sSlashes, NoQ)]

\* format!("{}\n{}{}", before, formatted, after) with the rows first..last of
\* the text left out (last = first - 1: nothing is left out)
PutBlock(nc, first, last, doc) ==
    LET lines == Lines(nc) IN
    FromPieces((IF first > 1 THEN SubSeq(lines, 1, first - 1) ELSE <<EmptyLine>>)
               \o Joined(doc) \o SubSeq(lines, last + 1, Len(lines)))

\* one pass of the loop body of RustParser::update_content
rust_apply_update(nc, item, update) ==
    LET lines == Lines(nc)
        row == item.line_number
        doc == rust_doc_lines(item.indentation, update.new_docstring)
        doc_start_line == DocStartRow(lines, row - 1, 0)
    IN IF row > Len(lines) THEN Outcome("UpdateError", nc)
       ELSE IF doc_start_line # 0
            THEN Outcome("Ok", PutBlock(nc, doc_start_line,
                                        DocEndRow(lines, doc_start_line, row), doc))
            ELSE Outcome("Ok", PutBlock(nc, row, row - 1, doc))

\* ------------------------------------------------------------------ JavaScriptParser
\* extract_jsdoc, lines 115-148 (the node's first child is its keyword, never
\* a comment).  The last "/**" in the text in front of the node and the first
\* "*/" behind it; a line of the modelled texts holds each at most once, the
\* "/**" at its start and the "*/" at its end.
LastJsDocStart(lines, row) ==
    LET starts == {i \in 1..(row - 1) : Contains(LineChars(lines[i]), sOpen)} IN
    IF starts = {} THEN 0 ELSE CHOOSE i \in starts : \A j \in starts : j <= i

LastJsDocEnd(lines, start, row) ==
    LET ends == {i \in start..(row - 1) : Contains(LineChars(lines[i]), sClose)} IN
    IF ends = {} THEN 0 ELSE CHOOSE i \in ends : \A j \in ends : i <= j

\* full_comment.trim().trim_start_matches("/**").trim_end_matches("*/"), then
\* every line trimmed, its leading stars taken off and trimmed again
JsDocText(lines, start, end) ==
    LET Cut(i) ==
            LET t0 == IF i = start \/ i = end THEN TrimmedLine(lines[i]) ELSE LineChars(lines[i])
                t1 == IF i = start THEN trim_start_matches(t0, sOpen) ELSE t0
                t2 == IF i = end THEN trim_end_matches(t1, sClose) ELSE t1
            IN trim(trim_start_matches(trim(t2), sStar))
    IN trim(JoinText([k \in 1..(end - start + 1) |-> Cut(start + k - 1)]))

extract_jsdoc(lines, row) ==
    LET start == LastJsDocStart(lines, row)
        end == IF start = 0 THEN 0 ELSE LastJsDocEnd(lines, start, row)
    IN IF start # 0 /\ end # 0 /\ row - end <= 2
       THEN Some(JsDocText(lines, start, end))
       ELSE None

\* JavaScriptParser::parse
js_parse(c) ==
    LET rows == FunctionRows("JavaScript", Lines(c)) IN
    [ok |-> TRUE,
     items |-> [k \in 1..Len(rows) |->
                   CodeItem("function",
                            FunctionName("JavaScript", TrimmedLine(Lines(c)[rows[k]])),
                            rows[k], extract_jsdoc(Lines(c), rows[k]), None, <<>>, None,
                            extract_indentation(c, rows[k]))]]

\* update_content, lines 397-415: the row of the "/**" line the scan upwards
\* from the definition row stops at (0: none), passing empty and // lines
RECURSIVE JsDocStartRow(_, _)
JsDocStartRow(lines, i) ==
    IF i = 0 THEN 0
    ELSE LET line == TrimmedLine(lines[i]) IN
         IF HasPrefix(line, sOpen) THEN i
         ELSE IF line # <<>> /\ ~HasPrefix(line, <<"/", "/">>) THEN 0
         ELSE JsDocStartRow(lines, i - 1)

\* lines 404-409: the first line from there on that holds "*/"
\* (docstring_end_line stays at the definition row when there is none)
JsDocEndRow(lines, start, row) ==
    LET ends == {j \in start..(row - 1) : Contains(TrimmedLine(lines[j]), sClose)} IN
    IF ends = {} THEN row ELSE CHOOSE j \in ends : \A k \in ends : j <= k

\* lines 418-431: "/**", one " * text" or " *" line per line, " */"
jsdoc_lines(indentation, new_docstring) ==
    <<Ln(indentation, NoQ, sOpen, NoQ)>>
    \o [i \in 1..Len(new_docstring) |->
           LET trimmed == TrimmedLine(new_docstring[i]) IN
           IF trimmed # <<>> THEN Ln(indentation, NoQ, <<" ", "*", " ">> \o trimmed, NoQ)
           ELSE Ln(indentation, NoQ, <<" ", "*">>, NoQ)]
    \o <<Ln(indentation, NoQ, sJsDocEnd, NoQ)>>

\* one pass of the loop body of JavaScriptParser::update_content
js_apply_update(nc, item, update) ==
    LET lines == Lines(nc)
        row == item.line_number
        doc == jsdoc_lines(item.indentation, update.new_docstring)
        docstring_start_line == JsDocStartRow(lines, row - 1)
    IN IF row > Len(lines) THEN Outcome("UpdateError", nc)
       ELSE IF docstring_start_line # 0
            THEN Outcome("Ok", PutBlock(nc, docstring_start_line,
                                        JsDocEndRow(lines, docstring_start_line, row), doc))
            ELSE Outcome("Ok", PutBlock(nc, row, row - 1, doc))

\* ------------------------------------------------------------------ the three rewriters
parse_in(lang, c) ==
    CASE lang = "Rust" -> rust_parse(c)
      [] lang = "JavaScript" -> js_parse(c)
      [] OTHER -> parse(c)

apply_update_in(lang, nc, item, update) ==
    CASE lang = "Rust" -> rust_apply_update(nc, item, update)
      [] lang = "JavaScript" -> js_apply_update(nc, item, update)
      [] OTHER -> ApplyUpdate(nc, item, update)

RECURSIVE ApplyAllIn(_, _, _, _)
ApplyAllIn(lang, nc, items, sorted) ==
    IF sorted = <<>> THEN Outcome("Ok", nc)
    ELSE IF ~InRange(items, Head(sorted)) THEN Outcome("Panic", NoContent)
    ELSE LET r == apply_update_in(lang, nc, items[Head(sorted).item_index + 1], Head(sorted)) IN
         IF r.kind # "Ok" THEN Outcome(r.kind, NoContent)
         ELSE ApplyAllIn(lang, r.content, items, Tail(sorted))

\* LanguageParser::update_content of the parser for lang
update_content_in(lang, c, updated_docstrings) ==
    TheOne({IF ~parsed.ok THEN Outcome("ParsingError", NoContent)
            ELSE IF ComparatorPanics(parsed.items, updated_docstrings)
            THEN Outcome("Panic", NoContent)
            ELSE ApplyAllIn(lang, c, parsed.items,
                            sort_updates(parsed.items, updated_docstrings)) :
            parsed \in {parse_in(lang, c)}})

\* ------------------------------------------------------------------ rewriter inputs
\* Rust texts: a function; one under a doc comment of one line, of two lines,
\* of one line and an empty line; a doc comment, a line of code and a
\* function; a line of code; a function indented by one level.
RustChunks ==
    {<<Code(0, sFnF)>>,
     <<Code(0, sRustDoc), Code(0, sFnG)>>,
     <<Code(0, sRustDoc), Code(0, sRustMore), Code(0, sFnG)>>,
     <<Code(0, sRustDoc), EmptyLine, Code(0, sFnG)>>,
     <<Code(0, sRustDoc), Code(0, sUse), Code(0, sFnG)>>,
     <<Code(0, sUse)>>,
     <<Code(1, sRustDoc), Code(1, sFnF)>>}

\* JavaScript texts: the same, with a JSDoc block on one line or over three
\* lines, and a block with a // line between it and the function.
JavaScriptChunks ==
    {<<Code(0, sFunctionF)>>,
     <<Code(0, sJsDocOne), Code(0, sFunctionG)>>,
     <<Code(0, sOpen), Code(0, sJsDocMid), Code(0, sJsDocEnd), Code(0, sFunctionG)>>,
     <<Code(0, sJsDocOne), EmptyLine, Code(0, sFunctionG)>>,
     <<Code(0, sJsDocOne), Code(0, sLet), Code(0, sFunctionG)>>,
     <<Code(0, sJsDocOne), Code(0, sNote), Code(0, sFunctionG)>>,
     <<Code(0, sLet)>>,
     <<Code(1, sFunctionF)>>}

\* Python texts: functions and a class as above, and a function whose body
\* stands on its definition line.
kInlineDef == <<Code(0, sDefI)>>
\* a function whose header is written over two lines
kTwoLineDef == <<Code(0, sDefH), Code(1, sHeaderEnd), Code(1, sPass)>>
PythonChunks ==
    {kPlainDef, kDocDef, kSingleQuoteDef, kMultiDef, kInlineDef, kTwoLineDef, kClass}

ChunksOf(lang) ==
    CASE lang = "Rust" -> RustChunks
      [] lang = "JavaScript" -> JavaScriptChunks
      [] OTHER -> PythonChunks

\* a file of one chunk or of two
RewriteFiles(lang) ==
    {FileOf(<<a>>) : a \in ChunksOf(lang)}
        \cup {FileOf(<<a, b>>) : a \in ChunksOf(lang), b \in ChunksOf(lang)}

\* documentation texts: one line; three lines, the second one empty and the
\* third one indented; for Python the same between triple quotes
dOne == <<Code(0, sNew)>>
dGap == <<Code(0, sNew), EmptyLine, Code(1, sMore)>>
RewriteDocs(lang) ==
    IF lang \in {"Rust", "JavaScript"} THEN {dOne, dGap} ELSE {Quoted(dOne), Quoted(dGap)}

\* update lists of up to two entries, each for an item of the text
RewriteUpdates(lang, c) ==
    LET items == parse_in(lang, c).items
        each == {UpdatedDocstring(i - 1, t, items[i].indentation) :
                    i \in 1..Len(items), t \in RewriteDocs(lang)}
    IN {<<>>} \cup {<<u>> : u \in each} \cup {<<u, v>> : u \in each, v \in each}

\* ------------------------------------------------------------------ state
VARIABLES
    pc,                 \* position of the running operation
    content,            \* the text handed to parse / update_content
    origin,             \* the text whose parse the update indices come from
    updated_docstrings, \* the update list
    parsed_code,        \* the ParsedCode in hand
    sorted_updates,     \* update_content: the updates not yet applied
    new_content,        \* update_content: the working text
    result,             \* what the operation returned
    docstring_issues,   \* what analyze returned
    config,             \* process_file: check_only and test_mode
    disk,               \* process_file: the file as stored
    events,             \* process_file: the calls made so far, in order
    invocation,         \* main: the --language flag and the file's extension
    language,           \* the language identifier in hand
    extractor,          \* the LanguageParser in use, "none" before there is one
    warnings,           \* the warnings printed so far, in order
    cycles,             \* parse/update cycles running side by side, each with its own locals
    files,              \* main: args.files, the paths in argument order
    file_system,        \* main: the text stored under each path
    file_index          \* main: the position in files of the file in hand, 0 before the first

vars == <<pc, content, origin, updated_docstrings, parsed_code, sorted_updates,
          new_content, result, docstring_issues, config, disk, events,
          invocation, language, extractor, warnings, cycles,
          files, file_system, file_index>>

main_vars == <<files, file_system, file_index>>

NoParse == [ok |-> FALSE, items |-> <<>>]
NoResult == Outcome("None", NoContent)
NoConfig == [check_only |-> FALSE, test_mode |-> FALSE]
NoInvocation == [flag |-> "Python", ext |-> "py"]

\* outside main nothing is dispatched, printed or run side by side
NoDispatch ==
    /\ invocation = NoInvocation
    /\ language = "Python"
    /\ extractor = "none"
    /\ warnings = <<>>
NoCycles == cycles = <<>>
\* outside the loop of main there is no argument list
NoRun ==
    /\ files = <<>>
    /\ file_system = <<>>
    /\ file_index = 0

\* the calls an operation makes, as it records them
Event(op, index, text) == [op |-> op, index |-> index, text |-> text]
Called(op) == \E i \in 1..Len(events) : events[i].op = op
Calls(op) == Cardinality({i \in 1..Len(events) : events[i].op = op})

\* ------------------------------------------------------------------ update_content, step by step
InitUpdate ==
    /\ content \in Files \cup DocFiles
    /\ origin \in Origins(content)
    /\ updated_docstrings \in SeqsUpTo(UpdatesFrom(parse(origin).items), MaxUpdates)
    /\ pc = "uc_parse"
    /\ parsed_code = NoParse
    /\ sorted_updates = <<>>
    /\ new_content = NoContent
    /\ result = NoResult
    /\ docstring_issues = <<>>
    /\ config = NoConfig
    /\ disk = NoContent
    /\ events = <<>>
    /\ NoDispatch
    /\ NoCycles
    /\ NoRun

\* lines 180-191: copy the content, re-parse it, sort the updates
UcParse ==
    /\ pc = "uc_parse"
    /\ new_content' = content
    /\ \E parsed \in {parse(content)} :
       /\ parsed_code' = parsed
       /\ IF ~parsed.ok
          THEN /\ result' = Outcome("ParsingError", NoContent)
               /\ pc' = "uc_done"
               /\ UNCHANGED sorted_updates
          ELSE IF ComparatorPanics(parsed.items, updated_docstrings)
          THEN /\ result' = Outcome("Panic", NoContent)
               /\ pc' = "uc_done"
               /\ UNCHANGED sorted_updates
          ELSE /\ sorted_updates' = sort_updates(parsed.items, updated_docstrings)
               /\ pc' = "uc_loop"
               /\ UNCHANGED result
    /\ UNCHANGED <<content, origin, updated_docstrings, docstring_issues, config, disk, events>>
    /\ UNCHANGED <<invocation, language, extractor, warnings, cycles>>
    /\ UNCHANGED main_vars

\* lines 193-269: one iteration of the loop
UcApply ==
    /\ pc = "uc_loop"
    /\ sorted_updates # <<>>
    /\ LET update == Head(sorted_updates) IN
       IF ~InRange(parsed_code.items, update)
       THEN /\ result' = Outcome("Panic", NoContent)
            /\ pc' = "uc_done"
            /\ UNCHANGED <<new_content, sorted_updates>>
       ELSE LET r == ApplyUpdate(new_content, parsed_code.items[update.item_index + 1], update) IN
            IF r.kind # "Ok"
            THEN /\ result' = Outcome(r.kind, NoContent)
                 /\ pc' = "uc_done"
                 /\ UNCHANGED <<new_content, sorted_updates>>
            ELSE /\ new_content' = r.content
                 /\ sorted_updates' = Tail(sorted_updates)
                 /\ UNCHANGED <<pc, result>>
    /\ UNCHANGED <<content, origin, updated_docstrings, parsed_code, docstring_issues,
                   config, disk, events>>
    /\ UNCHANGED <<invocation, language, extractor, warnings, cycles>>
    /\ UNCHANGED main_vars

\* faulty variant: the text is put together again from its lines
UcReturn_joined ==
    /\ pc = "uc_loop"
    /\ sorted_updates = <<>>
    /\ result' = Outcome("Ok", FromPieces(Joined(Lines(new_content))))
    /\ pc' = "uc_done"
    /\ UNCHANGED <<content, origin, updated_docstrings, parsed_code, sorted_updates,
                   new_content, docstring_issues, config, disk, events>>
    /\ UNCHANGED <<invocation, language, extractor, warnings, cycles>>
    /\ UNCHANGED main_vars

\* line 271: Ok(new_content)
UcReturn ==
    /\ pc = "uc_loop"
    /\ sorted_updates = <<>>
    /\ result' = Outcome("Ok", new_content)
    /\ pc' = "uc_done"
    /\ UNCHANGED <<content, origin, updated_docstrings, parsed_code, sorted_updates,
                   new_content, docstring_issues, config, disk, events>>
    /\ UNCHANGED <<invocation, language, extractor, warnings, cycles>>
    /\ UNCHANGED main_vars

\* ------------------------------------------------------------------ a rewrite and its repetition
\* A caller hands a text and an update list to the rewriter of a language,
\* then hands the rewriter its own output with the same update list.
InitRewrite ==
    /\ language \in {"Python", "Rust", "JavaScript"}
    /\ content \in RewriteFiles(language)
    /\ updated_docstrings \in RewriteUpdates(language, content)
    /\ pc = "rw_call"
    /\ origin = content
    /\ parsed_code = NoParse
    /\ sorted_updates = <<>>
    /\ new_content = NoContent
    /\ result = NoResult
    /\ docstring_issues = <<>>
    /\ config = NoConfig
    /\ disk = NoContent
    /\ events = <<>>
    /\ invocation = NoInvocation
    /\ extractor = "none"
    /\ warnings = <<>>
    /\ NoCycles
    /\ NoRun

\* update_content(content, updated_docstrings), then
\* update_content(its output, updated_docstrings)
UpdateContentIn(lang) ==
    /\ language = lang
    /\ \/ /\ pc = "rw_call"
          /\ \E r \in {update_content_in(lang, content, updated_docstrings)} :
             /\ result' = r
             /\ new_content' = r.content
             /\ pc' = IF r.kind = "Ok" THEN "rw_again" ELSE "rw_failed"
          /\ parsed_code' = parse_in(lang, content)
       \/ /\ pc = "rw_again"
          /\ result' = update_content_in(lang, new_content, updated_docstrings)
          /\ pc' = "rw_done"
          /\ UNCHANGED <<new_content, parsed_code>>
    /\ UNCHANGED <<content, origin, updated_docstrings, sorted_updates, docstring_issues,
                   config, disk, events>>
    /\ UNCHANGED <<invocation, language, extractor, warnings, cycles>>
    /\ UNCHANGED main_vars

RustUpdateContent == UpdateContentIn("Rust")
JavaScriptUpdateContent == UpdateContentIn("JavaScript")
PythonUpdateContent == UpdateContentIn("Python")

\* ------------------------------------------------------------------ cycles side by side
\* Two callers, each running update_content (with its parse) on a text of its
\* own; the steps of the two interleave.  A cycle's locals are its own:
\* PythonParser has no fields and the module no statics.
Cycle(cpc, c, updates, parsed, sorted, nc, res) ==
    [pc |-> cpc, content |-> c, updated_docstrings |-> updates, parsed_code |-> parsed,
     sorted_updates |-> sorted, new_content |-> nc, result |-> res]

CycleFiles == {FileOf(<<kPlainDef>>), FileOf(<<kDocDef, kPlainDef>>), FileOf(<<kJunk>>)}
CycleUpdates(c) ==
    {UpdatedDocstring(i - 1, tQuoted, parse(c).items[i].indentation) :
        i \in 1..Len(parse(c).items)}
CycleInputs ==
    {Cycle("parse", c, us, NoParse, <<>>, NoContent, NoResult) :
        c \in CycleFiles, us \in SeqsUpTo(CycleUpdates(FileOf(<<kDocDef, kPlainDef>>)), MaxUpdates)}

\* faulty variant: one working text for all callers
CycleText_shared(cs, t) == cs[1].new_content

\* the working text cycle t reads: its own `new_content`
CycleText(cs, t) == cs[t].new_content

InitCycles ==
    /\ cycles \in [1..2 -> CycleInputs]
    /\ pc = "cy_run"
    /\ content = NoContent
    /\ origin = NoContent
    /\ updated_docstrings = <<>>
    /\ parsed_code = NoParse
    /\ sorted_updates = <<>>
    /\ new_content = NoContent
    /\ result = NoResult
    /\ docstring_issues = <<>>
    /\ config = NoConfig
    /\ disk = NoContent
    /\ events = <<>>
    /\ NoDispatch
    /\ NoRun

OnlyCycles ==
    UNCHANGED <<pc, content, origin, updated_docstrings, parsed_code, sorted_updates,
                new_content, result, docstring_issues, config, disk, events,
                invocation, language, extractor, warnings,
                files, file_system, file_index>>

\* lines 180-191 in cycle t
CyParse ==
    /\ pc = "cy_run"
    /\ \E t \in DOMAIN cycles :
       \E cy \in {cycles[t]} :
       \E parsed \in {parse(cy.content)} :
             /\ cy.pc = "parse"
             /\ cycles' = [cycles EXCEPT ![t] =
                   IF ~parsed.ok
                   THEN [cy EXCEPT !.pc = "done", !.new_content = cy.content,
                                   !.parsed_code = parsed,
                                   !.result = Outcome("ParsingError", NoContent)]
                   ELSE IF ComparatorPanics(parsed.items, cy.updated_docstrings)
                   THEN [cy EXCEPT !.pc = "done", !.new_content = cy.content,
                                   !.parsed_code = parsed,
                                   !.result = Outcome("Panic", NoContent)]
                   ELSE [cy EXCEPT !.pc = "loop", !.new_content = cy.content,
                                   !.parsed_code = parsed,
                                   !.sorted_updates =
                                       sort_updates(parsed.items, cy.updated_docstrings)]]
    /\ OnlyCycles

\* lines 193-269 in cycle t: one iteration
CyApply ==
    /\ pc = "cy_run"
    /\ \E t \in DOMAIN cycles :
          LET cy == cycles[t] IN
          /\ cy.pc = "loop"
          /\ cy.sorted_updates # <<>>
          /\ LET update == Head(cy.sorted_updates) IN
             cycles' = [cycles EXCEPT ![t] =
                IF ~InRange(cy.parsed_code.items, update)
                THEN [cy EXCEPT !.pc = "done", !.result = Outcome("Panic", NoContent)]
                ELSE LET r == ApplyUpdate(CycleText(cycles, t),
                                          cy.parsed_code.items[update.item_index + 1], update)
                     IN IF r.kind # "Ok"
                        THEN [cy EXCEPT !.pc = "done", !.result = Outcome(r.kind, NoContent)]
                        ELSE [cy EXCEPT !.new_content = r.content,
                                        !.sorted_updates = Tail(cy.sorted_updates)]]
    /\ OnlyCycles

\* line 271 in cycle t
CyReturn ==
    /\ pc = "cy_run"
    /\ \E t \in DOMAIN cycles :
          LET cy == cycles[t] IN
          /\ cy.pc = "loop"
          /\ cy.sorted_updates = <<>>
          /\ cycles' = [cycles EXCEPT ![t] =
                [cy EXCEPT !.pc = "done", !.result = Outcome("Ok", CycleText(cycles, t))]]
    /\ OnlyCycles

\* ------------------------------------------------------------------ analyze
InitAnalyze ==
    /\ parsed_code \in {[ok |-> TRUE, items |-> its] : its \in SeqsUpTo(AnalyzerItems, MaxItems)}
    /\ pc = "an_call"
    /\ content = NoContent
    /\ origin = NoContent
    /\ updated_docstrings = <<>>
    /\ sorted_updates = <<>>
    /\ new_content = NoContent
    /\ result = NoResult
    /\ docstring_issues = <<>>
    /\ config = NoConfig
    /\ disk = NoContent
    /\ events = <<>>
    /\ NoDispatch
    /\ NoCycles
    /\ NoRun

Analyze ==
    /\ pc = "an_call"
    /\ docstring_issues' = analyze(parsed_code)
    /\ pc' = "an_done"
    /\ UNCHANGED <<content, origin, updated_docstrings, parsed_code, sorted_updates,
                   new_content, result, config, disk, events>>
    /\ UNCHANGED <<invocation, language, extractor, warnings, cycles>>
    /\ UNCHANGED main_vars

\* ------------------------------------------------------------------ parse
\* Texts handed to parse alone: classes with two methods, functions nested in
\* a function or in a method, comment lines in front of a definition.
kClassTwo ==
    <<Code(0, sClassFoo), Ln(1, DQ, sDoc, DQ), Code(1, sDefM), Code(2, sPass),
      Code(1, sDefS), Ln(2, DQ, sDocA, DQ), Code(2, sPass)>>
kNested == <<Code(0, sDefF), Code(1, sDefI), Code(1, sPass)>>
kNestedInMethod == <<Code(0, sClassFoo), Code(1, sDefM), Code(2, sDefI)>>
kCommented == <<Code(0, sComment), Code(0, sDefF), Code(1, sPass)>>
kCommentedDoc == <<Code(0, sComment), Code(0, sComment), Code(0, sDefG),
                   Ln(1, DQ, sDocA, DQ), Code(1, sPass)>>
kCommentApart == <<Code(0, sComment), Code(0, sAssign), Code(0, sDefF), Code(1, sPass)>>
kAssign == <<Code(0, sAssign)>>

ParseChunkSet ==
    {kPlainDef, kDocDef, kClass, kClassTwo, kNested, kNestedInMethod,
     kCommented, kCommentedDoc, kCommentApart, kAssign, kJunk}

ParseFiles == {FileOf(cs) : cs \in SeqsUpTo(ParseChunkSet, MaxChunks)}

\* functions whose parameters have default values, are keyword-only or variadic
kDefaultDef == <<Code(0, sDefD), Code(1, sPass)>>
kKwOnlyDef == <<Code(0, sDefK), Code(1, sPass)>>
kVariadicDef == <<Code(0, sDefV), Code(1, sPass)>>
ParamFiles ==
    {FileOf(<<k>>) : k \in {kDefaultDef, kKwOnlyDef, kVariadicDef}}
        \cup {FileOf(<<kDefaultDef, kKwOnlyDef, kVariadicDef>>)}

InitParse ==
    /\ content \in ParseFiles \cup ParamFiles
    /\ pc = "ps_call"
    /\ origin = content
    /\ updated_docstrings = <<>>
    /\ parsed_code = NoParse
    /\ sorted_updates = <<>>
    /\ new_content = NoContent
    /\ result = NoResult
    /\ docstring_issues = <<>>
    /\ config = NoConfig
    /\ disk = NoContent
    /\ events = <<>>
    /\ NoDispatch
    /\ NoCycles
    /\ NoRun

\* PythonParser::parse(content)
Parse ==
    /\ pc = "ps_call"
    /\ parsed_code' = parse(content)
    /\ result' = Outcome(IF parse(content).ok THEN "Ok" ELSE "ParsingError", NoContent)
    /\ pc' = "ps_done"
    /\ UNCHANGED <<content, origin, updated_docstrings, sorted_updates, new_content,
                   docstring_issues, config, disk, events>>
    /\ UNCHANGED <<invocation, language, extractor, warnings, cycles>>
    /\ UNCHANGED main_vars

\* ------------------------------------------------------------------ dispatch
Languages == {"Python", "Rust", "JavaScript", "TypeScript", "Auto"}
Extensions == {"py", "rs", "js", "ts", "tsx", "txt"}

\* a line printed to tell that something other than what was asked for is used
Warning(by, about) == [by |-> by, about |-> about]

\* faulty variant: the fallback is not announced
get_parser_silent(lang) == [extractor |-> "PythonParser", warnings |-> <<>>]

\* lang::get_parser: the parser returned and what is printed
get_parser(lang) ==
    [extractor |-> "PythonParser",
     warnings |-> IF lang = "Python" THEN <<>> ELSE <<Warning("get_parser", lang)>>]

\* main.rs detect_language: by file extension
detect_language(ext) ==
    CASE ext = "py" -> [language |-> "Python", warnings |-> <<>>]
      [] ext = "rs" -> [language |-> "Rust", warnings |-> <<>>]
      [] ext = "js" -> [language |-> "JavaScript", warnings |-> <<>>]
      [] ext \in {"ts", "tsx"} -> [language |-> "TypeScript", warnings |-> <<>>]
      [] OTHER -> [language |-> "Python", warnings |-> <<Warning("detect_language", ext)>>]

DispatchFiles == {FileOf(<<kPlainDef>>), FileOf(<<kClass, kDocDef>>), FileOf(<<kJunk>>)}

InitDispatch ==
    /\ language \in Languages
    /\ content \in DispatchFiles
    /\ updated_docstrings \in {<<>>, <<UpdatedDocstring(0, tQuoted, 0)>>}
    /\ pc = "gp_call"
    /\ origin = content
    /\ parsed_code = NoParse
    /\ sorted_updates = <<>>
    /\ new_content = NoContent
    /\ result = NoResult
    /\ docstring_issues = <<>>
    /\ config = NoConfig
    /\ disk = NoContent
    /\ events = <<>>
    /\ invocation = NoInvocation
    /\ extractor = "none"
    /\ warnings = <<>>
    /\ NoCycles
    /\ NoRun

\* lang/mod.rs get_parser(language)
GetParser ==
    /\ pc = "gp_call"
    /\ events' = Append(events, Event("get_parser", 0, NoContent))
    /\ extractor' = get_parser(language).extractor
    /\ warnings' = warnings \o get_parser(language).warnings
    /\ pc' = "gp_done"
    /\ UNCHANGED <<content, origin, updated_docstrings, parsed_code, sorted_updates,
                   new_content, result, docstring_issues, config, disk>>
    /\ UNCHANGED <<invocation, language, cycles>>
    /\ UNCHANGED main_vars

\* parser.rs: an entry point for lang that parses with the Python parser,
\* after the lines it prints
ParseEntry(lang, printed) ==
    /\ pc = "gp_call"
    /\ language = lang
    /\ events' = Append(events, Event("parse_entry", 0, NoContent))
    /\ warnings' = warnings \o printed
    /\ extractor' = "PythonParser"
    /\ parsed_code' = parse(content)
    /\ result' = Outcome(IF parse(content).ok THEN "Ok" ELSE "ParsingError", NoContent)
    /\ pc' = "gp_done"
    /\ UNCHANGED <<content, origin, updated_docstrings, sorted_updates, new_content,
                   docstring_issues, config, disk>>
    /\ UNCHANGED <<invocation, language, cycles>>
    /\ UNCHANGED main_vars

ParsePython == ParseEntry("Python", <<>>)
ParseRust == ParseEntry("Rust", <<Warning("parse_rust", "Rust")>>)
ParseJavaScript == ParseEntry("JavaScript", <<Warning("parse_javascript", "JavaScript")>>)
ParseTypeScript == ParseEntry("TypeScript", <<Warning("parse_typescript", "TypeScript")>>)

\* updater.rs update_file_content(original_content, language, updated_docstrings)
UpdateFileContent ==
    /\ pc = "gp_call"
    /\ events' = Append(events, Event("update_file_content", 0, NoContent))
    /\ extractor' = get_parser(language).extractor
    /\ warnings' = warnings \o get_parser(language).warnings
    /\ result' = update_content(content, updated_docstrings)
    /\ pc' = "gp_done"
    /\ UNCHANGED <<content, origin, updated_docstrings, parsed_code, sorted_updates,
                   new_content, docstring_issues, config, disk>>
    /\ UNCHANGED <<invocation, language, cycles>>
    /\ UNCHANGED main_vars

\* ------------------------------------------------------------------ llm.rs: generate_docstrings
\* generate_docstrings on its own: the items of a parse and an issue list that
\* the caller may have filtered and reordered
GenerateFiles == {FileOf(<<kPlainDef>>), FileOf(<<kClass, kPlainDef>>), FileOf(<<kDocDef, kClass>>)}

Sublists(sq) ==
    {[i \in 1..Len(f) |-> sq[f[i]]] :
        f \in {g \in SeqsUpTo(1..Len(sq), Len(sq)) :
                  \A i, j \in 1..Len(g) : i # j => g[i] # g[j]}}

InitGenerate ==
    /\ content \in GenerateFiles
    /\ parsed_code = parse(content)
    /\ docstring_issues \in Sublists(analyze(parse(content)))
    /\ pc = "gd_loop"
    /\ origin = content
    /\ updated_docstrings = <<>>
    /\ sorted_updates = <<>>
    /\ new_content = NoContent
    /\ result = NoResult
    /\ config = NoConfig
    /\ disk = NoContent
    /\ events = <<>>
    /\ NoDispatch
    /\ NoCycles
    /\ NoRun

\* ------------------------------------------------------------------ main.rs: process_file

\* one round of main's loop over the files: the flag and the extension are
\* varied on a few files, the files on the usual invocation
AutoPy == [flag |-> "Auto", ext |-> "py"]
Invocations == [flag : Languages, ext : Extensions]

InitProcess ==
    /\ \/ invocation = AutoPy /\ disk \in Files
       \/ invocation \in Invocations /\ disk \in DispatchFiles
    /\ origin = disk
    /\ config \in [check_only : BOOLEAN, test_mode : BOOLEAN]
    /\ pc = "mn_resolve"
    /\ content = NoContent
    /\ updated_docstrings = <<>>
    /\ parsed_code = NoParse
    /\ sorted_updates = <<>>
    /\ new_content = NoContent
    /\ result = NoResult
    /\ docstring_issues = <<>>
    /\ events = <<>>
    /\ language = invocation.flag
    /\ extractor = "none"
    /\ warnings = <<>>
    /\ NoCycles
    /\ NoRun

Return(kind) ==
    /\ result' = Outcome(kind, NoContent)
    /\ pc' = "pf_done"

\* main.rs lines 83-86: the flag, or the extension when the flag is auto
MnResolve ==
    /\ pc = "mn_resolve"
    /\ IF invocation.flag = "Auto"
       THEN /\ language' = detect_language(invocation.ext).language
            /\ warnings' = warnings \o detect_language(invocation.ext).warnings
       ELSE /\ language' = invocation.flag
            /\ UNCHANGED warnings
    /\ pc' = "pf_read"
    /\ UNCHANGED <<content, origin, updated_docstrings, parsed_code, sorted_updates,
                   new_content, result, docstring_issues, config, disk, events>>
    /\ UNCHANGED <<invocation, extractor, cycles>>
    /\ UNCHANGED main_vars

\* line 119: std::fs::read_to_string(file_path)?
PfRead ==
    /\ pc = "pf_read"
    /\ events' = Append(events, Event("read", 0, NoContent))
    /\ \/ /\ content' = disk
          /\ pc' = "pf_parse"
          /\ UNCHANGED result
       \/ /\ Return("FileError")
          /\ UNCHANGED content
    /\ UNCHANGED <<origin, updated_docstrings, parsed_code, sorted_updates, new_content,
                   docstring_issues, config, disk>>
    /\ UNCHANGED <<invocation, language, extractor, warnings, cycles>>
    /\ UNCHANGED main_vars

\* lines 123-124: PythonParser::new().parse(&content)?
PfParse ==
    /\ pc = "pf_parse"
    /\ events' = Append(events, Event("parse", 0, NoContent))
    /\ IF parse(content).ok
       THEN /\ parsed_code' = parse(content)
            /\ pc' = "pf_analyze"
            /\ UNCHANGED result
       ELSE /\ Return("ParsingError")
            /\ UNCHANGED parsed_code
    /\ extractor' = "PythonParser"
    /\ UNCHANGED <<content, origin, updated_docstrings, sorted_updates, new_content,
                   docstring_issues, config, disk>>
    /\ UNCHANGED <<invocation, language, warnings, cycles>>
    /\ UNCHANGED main_vars

\* line 148: docstring::analyze(&parsed_code)?
PfAnalyze ==
    /\ pc = "pf_analyze"
    /\ events' = Append(events, Event("analyze", 0, NoContent))
    /\ docstring_issues' = analyze(parsed_code)
    /\ pc' = "pf_report"
    /\ UNCHANGED <<content, origin, updated_docstrings, parsed_code, sorted_updates,
                   new_content, result, config, disk>>
    /\ UNCHANGED <<invocation, language, extractor, warnings, cycles>>
    /\ UNCHANGED main_vars

\* faulty variant: test mode does not stop before the generation
PfReport_test_goes_on ==
    /\ pc = "pf_report"
    /\ IF docstring_issues = <<>> \/ config.check_only
       THEN Return("Ok")
       ELSE /\ pc' = "pf_client"
            /\ UNCHANGED result
    /\ UNCHANGED <<content, origin, updated_docstrings, parsed_code, sorted_updates,
                   new_content, docstring_issues, config, disk, events>>
    /\ UNCHANGED <<invocation, language, extractor, warnings, cycles>>
    /\ UNCHANGED main_vars

\* lines 150-186: nothing to do, or report and stop in check or test mode
PfReport ==
    /\ pc = "pf_report"
    /\ IF docstring_issues = <<>> \/ config.check_only \/ config.test_mode
       THEN Return("Ok")
       ELSE /\ pc' = "pf_client"
            /\ UNCHANGED result
    /\ UNCHANGED <<content, origin, updated_docstrings, parsed_code, sorted_updates,
                   new_content, docstring_issues, config, disk, events>>
    /\ UNCHANGED <<invocation, language, extractor, warnings, cycles>>
    /\ UNCHANGED main_vars

\* line 193: llm::get_client(&config.provider)?
PfClient ==
    /\ pc = "pf_client"
    /\ events' = Append(events, Event("client", 0, NoContent))
    /\ \/ /\ pc' = "pf_generate"
          /\ UNCHANGED result
       \/ Return("ConfigError")
    /\ UNCHANGED <<content, origin, updated_docstrings, parsed_code, sorted_updates,
                   new_content, docstring_issues, config, disk>>
    /\ UNCHANGED <<invocation, language, extractor, warnings, cycles>>
    /\ UNCHANGED main_vars

\* faulty variant: a failed request ends the loop and what was built so far
\* is returned as the result
GenerateNext_partial(failed) ==
    /\ Len(updated_docstrings) < Len(docstring_issues)
    /\ LET issue == docstring_issues[Len(updated_docstrings) + 1]
           item == parsed_code.items[issue.item_index + 1]
       IN /\ events' = Append(events, Event("generate", issue.item_index, NoContent))
          /\ \/ \E text \in Responses :
                   /\ updated_docstrings' =
                         Append(updated_docstrings,
                                UpdatedDocstring(issue.item_index, Quoted(text), item.indentation))
                   /\ UNCHANGED <<pc, result>>
             \/ /\ result' = Outcome("Ok", NoContent)
                /\ pc' = failed
                /\ UNCHANGED updated_docstrings
    /\ UNCHANGED <<content, origin, parsed_code, sorted_updates, new_content,
                   docstring_issues, config, disk>>
    /\ UNCHANGED <<invocation, language, extractor, warnings, cycles>>
    /\ UNCHANGED main_vars

\* llm.rs generate_docstrings, one round of `for issue in issues`: the request
\* for the next issue, then the push of its UpdatedDocstring, or the error
\* return, with which the list built so far is dropped (position `failed`)
GenerateNext(failed) ==
    /\ Len(updated_docstrings) < Len(docstring_issues)
    /\ LET issue == docstring_issues[Len(updated_docstrings) + 1]
           item == parsed_code.items[issue.item_index + 1]
       IN /\ events' = Append(events, Event("generate", issue.item_index, NoContent))
          /\ \/ \E text \in Responses :
                   /\ updated_docstrings' =
                         Append(updated_docstrings,
                                UpdatedDocstring(issue.item_index, Quoted(text), item.indentation))
                   /\ UNCHANGED <<pc, result>>
             \/ /\ result' = Outcome("LlmApiError", NoContent)
                /\ pc' = failed
                /\ updated_docstrings' = <<>>
    /\ UNCHANGED <<content, origin, parsed_code, sorted_updates, new_content,
                   docstring_issues, config, disk>>
    /\ UNCHANGED <<invocation, language, extractor, warnings, cycles>>
    /\ UNCHANGED main_vars

\* line 194: llm_client.generate_docstrings(&parsed_code, &docstring_issues).await?
PfGenerate ==
    /\ pc = "pf_generate"
    /\ GenerateNext("pf_done")

\* generate_docstrings called alone: a round of the loop
GdCall ==
    /\ pc = "gd_loop"
    /\ GenerateNext("gd_done")

\* llm.rs line 148: Ok(updated_docstrings)
GdReturn ==
    /\ pc = "gd_loop"
    /\ Len(updated_docstrings) = Len(docstring_issues)
    /\ result' = Outcome("Ok", NoContent)
    /\ pc' = "gd_done"
    /\ UNCHANGED <<content, origin, updated_docstrings, parsed_code, sorted_updates,
                   new_content, docstring_issues, config, disk, events>>
    /\ UNCHANGED <<invocation, language, extractor, warnings, cycles>>
    /\ UNCHANGED main_vars

\* faulty variant: the rewrite does not wait for the last generated docstring
PfUpdate_partial ==
    /\ pc = "pf_generate"
    /\ events' = Append(events, Event("update", 0, NoContent))
    /\ \E r \in {update_content(content, updated_docstrings)} :
       IF r.kind = "Ok"
       THEN /\ new_content' = r.content
            /\ pc' = "pf_write"
            /\ UNCHANGED result
       ELSE /\ Return(r.kind)
            /\ UNCHANGED new_content
    /\ UNCHANGED <<content, origin, updated_docstrings, parsed_code, sorted_updates,
                   docstring_issues, config, disk>>
    /\ UNCHANGED <<invocation, language, extractor, warnings, cycles>>
    /\ UNCHANGED main_vars

\* line 198: parser.update_content(&content, &updated_docstrings)?
PfUpdate ==
    /\ pc = "pf_generate"
    /\ Len(updated_docstrings) = Len(docstring_issues)
    /\ events' = Append(events, Event("update", 0, NoContent))
    /\ \E r \in {update_content(content, updated_docstrings)} :
       IF r.kind = "Ok"
       THEN /\ new_content' = r.content
            /\ pc' = "pf_write"
            /\ UNCHANGED result
       ELSE /\ Return(r.kind)
            /\ UNCHANGED new_content
    /\ UNCHANGED <<content, origin, updated_docstrings, parsed_code, sorted_updates,
                   docstring_issues, config, disk>>
    /\ UNCHANGED <<invocation, language, extractor, warnings, cycles>>
    /\ UNCHANGED main_vars

\* line 222: std::fs::write(file_path, updated_content)?  A write that fails
\* leaves the file as it was or truncated.
PfWrite ==
    /\ pc = "pf_write"
    /\ events' = Append(events, Event("write", 0, new_content))
    /\ \/ /\ disk' = new_content
          /\ Return("Ok")
       \/ /\ disk' \in {disk, NoContent}
          /\ Return("FileError")
    /\ UNCHANGED <<content, origin, updated_docstrings, parsed_code, sorted_updates,
                   new_content, docstring_issues, config>>
    /\ UNCHANGED <<invocation, language, extractor, warnings, cycles>>
    /\ UNCHANGED main_vars

\* ------------------------------------------------------------------ main, the loop over args.files
MaxFiles == 3
Paths == {"a", "b"}
ArgumentLists == UNION {[1..n -> Paths] : n \in 1..MaxFiles}
StoredFiles == {FileOf(<<kPlainDef>>), FileOf(<<kGoodDef>>), FileOf(<<kJunk>>)}
\* what the surroundings do to one call of process_file
Surroundings == {"fine", "read_fails", "client_fails", "request_fails", "write_fails"}

Processed(kind, calls, stored) == [kind |-> kind, calls |-> calls, stored |-> stored]

\* what the text asks of process_file: issues found, outside check and test mode
NeedsChanges(text, cfg) ==
    /\ parse(text).ok
    /\ analyze(parse(text)) # <<>>
    /\ ~cfg.check_only
    /\ ~cfg.test_mode

\* llm.rs generate_docstrings with every request answered
generate_docstrings(parsed, issues) ==
    [k \in 1..Len(issues) |->
        UpdatedDocstring(issues[k].item_index, Quoted(tBare),
                         parsed.items[issues[k].item_index + 1].indentation)]

\* main.rs lines 193-198 with every request answered: update_content of the
\* text and the generated list (the set holds that one result)
updated_content(stored) ==
    TheOne({update_content(stored, generate_docstrings(parsed, analyze(parsed))) :
            parsed \in {parse(stored)}})

\* main.rs process_file for argument i, whose path holds `stored`: the result,
\* the reads and writes made, and what the path holds afterwards
process_file(i, stored, cfg, around) ==
    LET read == <<Event("read", i, stored)>> IN
    IF around = "read_fails" THEN Processed("FileError", <<Event("read", i, NoContent)>>, stored)
    ELSE IF ~parse(stored).ok THEN Processed("ParsingError", read, stored)
    ELSE IF ~NeedsChanges(stored, cfg) THEN Processed("Ok", read, stored)
    ELSE IF around = "client_fails" THEN Processed("ConfigError", read, stored)
    ELSE IF around = "request_fails" THEN Processed("LlmApiError", read, stored)
    ELSE TheOne({IF r.kind # "Ok" THEN Processed(r.kind, read, stored)
                 ELSE IF around = "write_fails"
                 THEN Processed("FileError", Append(read, Event("write", i, NoContent)),
                                NoContent)
                 ELSE Processed("Ok", Append(read, Event("write", i, r.content)), r.content) :
                 r \in {updated_content(stored)}})

InitMain ==
    /\ files \in ArgumentLists
    /\ file_system \in [Paths -> StoredFiles]
    /\ file_index = 0
    /\ config \in [check_only : BOOLEAN, test_mode : BOOLEAN]
    /\ pc = "mn_loop"
    /\ content = NoContent
    /\ origin = NoContent
    /\ updated_docstrings = <<>>
    /\ parsed_code = NoParse
    /\ sorted_updates = <<>>
    /\ new_content = NoContent
    /\ result = NoResult
    /\ docstring_issues = <<>>
    /\ disk = NoContent
    /\ events = <<>>
    /\ NoDispatch
    /\ NoCycles

OnlyMain ==
    UNCHANGED <<content, origin, updated_docstrings, parsed_code, sorted_updates,
                new_content, docstring_issues, config, disk,
                invocation, language, extractor, warnings, cycles, files>>

\* faulty variant: the error of a file is kept and the loop goes on
MnProcessFile_goes_on ==
    /\ pc = "mn_loop"
    /\ file_index < Len(files)
    /\ \E around \in Surroundings, i \in {file_index + 1} :
       \E done \in {process_file(i, file_system[files[i]], config, around)} :
             /\ file_index' = i
             /\ events' = events \o done.calls
             /\ file_system' = [file_system EXCEPT ![files[i]] = done.stored]
             /\ IF done.kind = "Ok"
                THEN UNCHANGED <<pc, result>>
                ELSE /\ result' = Outcome(done.kind, NoContent)
                     /\ UNCHANGED pc
    /\ OnlyMain

\* main.rs lines 82-93, one round of `for file_path in &args.files`:
\* process_file(file_path, &language, &config).await?
MnProcessFile ==
    /\ pc = "mn_loop"
    /\ file_index < Len(files)
    /\ \E around \in Surroundings, i \in {file_index + 1} :
       \E done \in {process_file(i, file_system[files[i]], config, around)} :
             /\ file_index' = i
             /\ events' = events \o done.calls
             /\ file_system' = [file_system EXCEPT ![files[i]] = done.stored]
             /\ IF done.kind = "Ok"
                THEN UNCHANGED <<pc, result>>
                ELSE /\ result' = Outcome(done.kind, NoContent)
                     /\ pc' = "mn_done"
    /\ OnlyMain

\* main.rs line 95: Ok(()) after the last file
MnReturn ==
    /\ pc = "mn_loop"
    /\ file_index = Len(files)
    /\ result' = Outcome("Ok", NoContent)
    /\ pc' = "mn_done"
    /\ UNCHANGED <<file_system, file_index, events>>
    /\ OnlyMain

\* ------------------------------------------------------------------ specification
Init == InitUpdate \/ InitAnalyze \/ InitProcess \/ InitParse \/ InitDispatch
            \/ InitGenerate \/ InitCycles \/ InitRewrite \/ InitMain

Next ==
    \/ UcParse \/ UcApply \/ UcReturn
    \/ CyParse \/ CyApply \/ CyReturn
    \/ RustUpdateContent \/ JavaScriptUpdateContent \/ PythonUpdateContent
    \/ Analyze
    \/ Parse
    \/ GetParser \/ ParsePython \/ ParseRust \/ ParseJavaScript \/ ParseTypeScript
    \/ UpdateFileContent
    \/ GdCall \/ GdReturn
    \/ MnResolve \/ MnProcessFile \/ MnReturn
    \/ PfRead \/ PfParse \/ PfAnalyze \/ PfReport \/ PfClient \/ PfGenerate \/ PfUpdate \/ PfWrite

Spec == Init /\ [][Next]_vars

\* ------------------------------------------------------------------ properties
UpdateDone == pc = "uc_done"
InProcess == pc \in {"mn_resolve", "pf_read", "pf_parse", "pf_analyze", "pf_report", "pf_client",
                     "pf_generate", "pf_write", "pf_done"}
\* analyze has returned docstring_issues for parsed_code
Analyzed == pc = "an_done" \/ (InProcess /\ Called("analyze"))

Fresh == origin = content
AllInRange(items, updates) == \A k \in 1..Len(updates) : InRange(items, updates[k])

RECURSIVE IsSubseq(_, _)
IsSubseq(a, b) ==
    IF a = <<>> THEN TRUE
    ELSE IF b = <<>> THEN FALSE
    ELSE IF Head(a) = Head(b) THEN IsSubseq(Tail(a), Tail(b))
    ELSE IsSubseq(a, Tail(b))

\* the rows of the docstring statement of item k (1-based) of a text that parses
DocRows(c, k) ==
    LET stmts == ParseProgram(c).stmts
        first == BodyFirst(stmts, ItemStmts(stmts, 1)[k])
    IN IF first.kind = "str" THEN first.row..first.last ELSE {}

\* the lines of c outside the docstrings of the items the updates target
UntargetedLines(c, updates) ==
    LET rows == UNION {DocRows(c, updates[k].item_index + 1) : k \in 1..Len(updates)}
        keep == {i \in 1..Len(Lines(c)) : i \notin rows}
        RECURSIVE From(_)
        From(i) == IF i > Len(Lines(c)) THEN <<>>
                   ELSE (IF i \in keep THEN <<Lines(c)[i]>> ELSE <<>>) \o From(i + 1)
    IN From(1)

\* C1: when some update's item_index is not below the number of items of the
\* re-parsed content, update_content returns UpdateError (no panic, no Ok).
C1_OutOfRangeIsUpdateError ==
    (/\ UpdateDone
     /\ parse(content).ok
     /\ ~AllInRange(parse(content).items, updated_docstrings))
        => result.kind = "UpdateError"

\* C2: every input line outside the docstrings of the targeted items is in the
\* output, unchanged and in the same relative order.
C2_UntargetedLinesKept ==
    (UpdateDone /\ Fresh /\ result.kind = "Ok")
        => IsSubseq(UntargetedLines(content, updated_docstrings), Lines(result.content))

\* C3: after one in-range update, re-parsing the output yields an item of the
\* same name whose existing_docstring is the update's new_docstring, character
\* for character.
C3_RoundTrip ==
    (UpdateDone /\ Fresh /\ result.kind = "Ok" /\ Len(updated_docstrings) = 1)
        => LET u == updated_docstrings[1]
               again == parse(result.content)
           IN /\ again.ok
              /\ u.item_index < Len(again.items)
              /\ again.items[u.item_index + 1].name = parsed_code.items[u.item_index + 1].name
              /\ again.items[u.item_index + 1].existing_docstring
                     = Some(JoinChars(u.new_docstring))

\* the update list in another order
Permuted(updates, f) == [i \in 1..Len(updates) |-> updates[f[i]]]
DistinctLines(items, updates) ==
    \A i, j \in 1..Len(updates) : i # j => LineOf(items, updates[i]) # LineOf(items, updates[j])

\* C4: updates that target items on pairwise different definition lines give
\* the same result in every order of the update list.
C4_OrderIndependent ==
    UpdateDone =>
        LET parsed == parse(content) IN
        (/\ parsed.ok
         /\ AllInRange(parsed.items, updated_docstrings)
         /\ DistinctLines(parsed.items, updated_docstrings))
            => \A f \in Permutations(1..Len(updated_docstrings)) :
                   update_content(content, Permuted(updated_docstrings, f)) = result

\* two updates given in ascending line order, which the sort has to swap
C4_Witness ==
    /\ UpdateDone
    /\ result.kind = "Ok"
    /\ Len(updated_docstrings) = 2
    /\ AllInRange(parsed_code.items, updated_docstrings)
    /\ LineOf(parsed_code.items, updated_docstrings[1])
           < LineOf(parsed_code.items, updated_docstrings[2])

Ops == [i \in 1..Len(events) |-> events[i].op]
Repeat(n, op) == [i \in 1..n |-> op]

\* C5: process_file issues a write only as the last call, after read, parse,
\* analyze, client creation, one generation per issue and update_content have
\* succeeded; the write is one write of the whole update_content result; a
\* failed step is followed by no write and leaves the file as it was.
C5_WriteOnlyAfterSuccess ==
    InProcess =>
        /\ Called("write") =>
              /\ Ops = <<"read", "parse", "analyze", "client">>
                         \o Repeat(Len(docstring_issues), "generate") \o <<"update", "write">>
              /\ docstring_issues # <<>>
              /\ parse(content).ok
              /\ Len(updated_docstrings) = Len(docstring_issues)
              /\ update_content(content, updated_docstrings).kind = "Ok"
              /\ events[Len(events)].text = update_content(content, updated_docstrings).content
        /\ result.kind \in {"ParsingError", "ConfigError", "LlmApiError", "UpdateError", "Panic"}
              => ~Called("write")
        /\ ~Called("write") => disk = origin

C5_Witness ==
    /\ pc = "pf_done"
    /\ result.kind = "Ok"
    /\ Called("write")
    /\ Len(docstring_issues) >= 2
    /\ disk # origin

\* C6: content whose syntax tree cannot be built makes update_content return
\* ParsingError and no text, whatever the updates; process_file returns that
\* error and calls neither analyze nor the generation nor update_content nor
\* a write.
C6_ParseErrorSurfaces ==
    /\ (UpdateDone /\ ~ParseProgram(content).ok)
          => result = Outcome("ParsingError", NoContent)
    /\ (InProcess /\ Called("parse") /\ ~ParseProgram(content).ok)
          => /\ pc = "pf_done"
             /\ result = Outcome("ParsingError", NoContent)
             /\ Ops = <<"read", "parse">>
             /\ disk = origin

C6_Witness ==
    /\ UpdateDone
    /\ ~ParseProgram(content).ok
    /\ updated_docstrings # <<>>
    /\ result.kind = "ParsingError"

\* C7: an update whose index comes from the parse of another text is rejected
\* with UpdateError, also when the index is in range for the content.
C7_StaleIndexRejected ==
    (/\ UpdateDone
     /\ ~Fresh
     /\ updated_docstrings # <<>>
     /\ parse(content).ok
     /\ AllInRange(parse(content).items, updated_docstrings))
        => result.kind = "UpdateError"

IssuesFor(index) ==
    {i \in 1..Len(docstring_issues) : docstring_issues[i].item_index = index}
IssueTypesFor(index) == {docstring_issues[i].issue_type : i \in IssuesFor(index)}

\* C8: analyze reports Missing for an item exactly when its existing_docstring
\* is absent, and reports nothing else for such an item.
C8_MissingIffAbsent ==
    Analyzed =>
        \A k \in 1..Len(parsed_code.items) :
            /\ ("missing" \in IssueTypesFor(k - 1)) <=> ~parsed_code.items[k].existing_docstring.some
            /\ ~parsed_code.items[k].existing_docstring.some => IssueTypesFor(k - 1) = {"missing"}

C8_Witness ==
    /\ pc = "an_done"
    /\ Len(parsed_code.items) = 1
    /\ ~parsed_code.items[1].existing_docstring.some
    /\ parsed_code.items[1].parameters # <<>>
    /\ Len(docstring_issues) = 1
    /\ docstring_issues[1].issue_type = "missing"

\* the three conditions, for an item with a docstring; Named says which
\* parameters have to be mentioned and Strip what is taken off a parameter
NoReturnWord(item) ==
    item.returns.some /\ ~Contains(to_lowercase(item.existing_docstring.val), sReturn)
Placeholder(item) == Len(trim(item.existing_docstring.val)) < MinDocLen
StripStarsEquals(p) == trim_matches(p)
StripAllMarkers(p) ==
    LET q == trim_matches(p) IN
    IF Len(q) >= 3 /\ SubSeq(q, 1, 3) = <<".", ".", ".">> THEN SubSeq(q, 4, Len(q)) ELSE q

\* C9 as stated: with a docstring present, Outdated exactly when some
\* parameter, markers stripped, is no substring of the docstring, or the
\* return word is missing, or the docstring is a placeholder; else no issue.
C9_OutdatedIffAnyParameter ==
    Analyzed =>
        \A k \in 1..Len(parsed_code.items) :
            LET item == parsed_code.items[k]
                due == \/ \E i \in 1..Len(item.parameters) :
                             ~Contains(item.existing_docstring.val,
                                       StripStarsEquals(item.parameters[i]))
                       \/ NoReturnWord(item)
                       \/ Placeholder(item)
            IN item.existing_docstring.some =>
                   IssueTypesFor(k - 1) = (IF due THEN {"outdated"} ELSE {})

\* C9 amended: the parameter "self" is not looked for.
C9_OutdatedIff ==
    Analyzed =>
        \A k \in 1..Len(parsed_code.items) :
            LET item == parsed_code.items[k]
                due == \/ \E i \in 1..Len(item.parameters) :
                             /\ item.parameters[i] # pSelf
                             /\ ~Contains(item.existing_docstring.val,
                                          StripStarsEquals(item.parameters[i]))
                       \/ NoReturnWord(item)
                       \/ Placeholder(item)
            IN item.existing_docstring.some =>
                   IssueTypesFor(k - 1) = (IF due THEN {"outdated"} ELSE {})

\* f(a, b) with a docstring that has a and not b
C9_Witness ==
    /\ pc = "an_done"
    /\ Len(parsed_code.items) = 1
    /\ parsed_code.items[1].parameters = <<pA, pB>>
    /\ parsed_code.items[1].existing_docstring.some
    /\ Contains(parsed_code.items[1].existing_docstring.val, pA)
    /\ ~Contains(parsed_code.items[1].existing_docstring.val, pB)
    /\ ~Placeholder(parsed_code.items[1])
    /\ ~NoReturnWord(parsed_code.items[1])
    /\ Len(docstring_issues) = 1
    /\ docstring_issues[1].issue_type = "outdated"

\* C10: a parameter named "self" or "this" never makes an item Outdated, and
\* the markers taken off before the substring test include the rest marker.
C10_ReceiverAndMarkers ==
    Analyzed =>
        \A k \in 1..Len(parsed_code.items) :
            LET item == parsed_code.items[k]
                due == \/ \E i \in 1..Len(item.parameters) :
                             /\ item.parameters[i] \notin {pSelf, pThis}
                             /\ ~Contains(item.existing_docstring.val,
                                          StripAllMarkers(item.parameters[i]))
                       \/ NoReturnWord(item)
                       \/ Placeholder(item)
            IN (item.existing_docstring.some /\ ~due) => IssueTypesFor(k - 1) = {}

\* C11: analyze returns at most one issue per item, in increasing item order;
\* an issue's item_index is the position of its item in ParsedCode.items and
\* its item_type, name and line_number are that item's; items without an
\* issue are left out, so no items means no issues.
C11_IssuesFollowItems ==
    Analyzed =>
        /\ \A i \in 1..Len(docstring_issues) :
              LET issue == docstring_issues[i] IN
              /\ issue.item_index \in 0..(Len(parsed_code.items) - 1)
              /\ issue.item_type = parsed_code.items[issue.item_index + 1].item_type
              /\ issue.name = parsed_code.items[issue.item_index + 1].name
              /\ issue.line_number = parsed_code.items[issue.item_index + 1].line_number
              /\ issue.issue_type \in {"missing", "outdated"}
        /\ \A i, j \in 1..Len(docstring_issues) :
              i < j => docstring_issues[i].item_index < docstring_issues[j].item_index
        /\ parsed_code.items = <<>> => docstring_issues = <<>>

\* a parse with an issue-free item before a flagged one: the issue's index is
\* not its place in the issue list
C11_Witness ==
    /\ Analyzed
    /\ Len(parsed_code.items) >= 2
    /\ docstring_issues # <<>>
    /\ Len(docstring_issues) < Len(parsed_code.items)
    /\ docstring_issues[1].item_index > 0

\* parse has returned the items of content
Parsed == (pc = "ps_done" \/ (InProcess /\ Called("parse"))) /\ parsed_code.ok

\* statement q is a header at module level
TopLevel(stmts, q) == stmts[q].ind = 0 /\ stmts[q].kind \in {"def", "class"}
\* statement p is a def standing directly in the body of top-level class q
MethodOf(stmts, p, q) ==
    /\ TopLevel(stmts, q) /\ stmts[q].kind = "class"
    /\ q < p /\ stmts[p].kind = "def"
    /\ stmts[p].ind = stmts[q + 1].ind
    /\ \A r \in (q + 1)..(p - 1) : stmts[r].ind >= stmts[p].ind
ItemAt(items, row) == CHOOSE k \in 1..Len(items) : items[k].line_number = row
HasItemAt(items, row) == \E k \in 1..Len(items) : items[k].line_number = row

Dispatched == pc = "gp_done"
AnnouncedFallback(lang) == \E i \in 1..Len(warnings) : warnings[i].about = lang

\* C13: get_parser, update_file_content and the parse_* entry points hand
\* the work to the Python extractor for every language; for a language other
\* than Python each call prints one warning about it, for Python none.
C13_FallbackIsAnnounced ==
    Dispatched =>
        /\ extractor = "PythonParser"
        /\ IF language = "Python" THEN warnings = <<>>
           ELSE Len(warnings) = 1 /\ warnings[1].about = language

C13_Witness ==
    /\ Dispatched
    /\ language = "Rust"
    /\ events[1].op = "get_parser"
    /\ extractor = "PythonParser"
    /\ warnings = <<Warning("get_parser", "Rust")>>

\* C14: when main processes a file whose resolved language is not Python, the
\* use of the Python extractor on it comes with a warning about that language.
C14_PipelineAnnouncesFallback ==
    (InProcess /\ extractor = "PythonParser" /\ language # "Python")
        => AnnouncedFallback(language)

\* the generation calls made so far: the item index of each, in order
RECURSIVE GenerateCalls(_)
GenerateCalls(evs) ==
    IF evs = <<>> THEN <<>>
    ELSE (IF Head(evs).op = "generate" THEN <<Head(evs).index>> ELSE <<>>)
             \o GenerateCalls(Tail(evs))

Generating == pc \in {"gd_loop", "gd_done", "pf_generate", "pf_write"}
                 \/ (pc = "pf_done" /\ Called("generate"))
Generated == (pc = "gd_done" /\ result.kind = "Ok") \/ (InProcess /\ Called("update"))

\* C15: generate_docstrings makes one call per issue, one after the other in
\* the order of the issue list; when it succeeds it has made a call for every
\* issue and returns one UpdatedDocstring per issue, in that order, with the
\* issue's item_index and the item's indentation; when a call fails the calls
\* made are those for the issues up to it and no list is returned.
C15_OneCallPerIssueInOrder ==
    Generating =>
        LET calls == GenerateCalls(events) IN
        /\ Len(calls) <= Len(docstring_issues)
        /\ \A k \in 1..Len(calls) : calls[k] = docstring_issues[k].item_index
        /\ Generated =>
              /\ Len(calls) = Len(docstring_issues)
              /\ Len(updated_docstrings) = Len(docstring_issues)
              /\ \A k \in 1..Len(docstring_issues) :
                    /\ updated_docstrings[k].item_index = docstring_issues[k].item_index
                    /\ updated_docstrings[k].indentation
                           = parsed_code.items[docstring_issues[k].item_index + 1].indentation
        /\ result.kind = "LlmApiError" =>
              /\ updated_docstrings = <<>>
              /\ Len(calls) >= 1
        /\ result.kind \notin {"LlmApiError", "None"} => Generated

\* issues handed over out of file order, all answered
C15_Witness ==
    /\ pc = "gd_done"
    /\ result.kind = "Ok"
    /\ Len(docstring_issues) >= 2
    /\ docstring_issues[1].item_index > docstring_issues[2].item_index
    /\ GenerateCalls(events) = <<docstring_issues[1].item_index, docstring_issues[2].item_index>>
    /\ updated_docstrings[1].indentation # updated_docstrings[2].indentation

\* C16: in check mode, in test mode, and when analyze finds no issue,
\* process_file makes no client, no generation call, no update_content call
\* and no write, and returns success, however many issues there are.
C16_ReportOnly ==
    (/\ InProcess
     /\ Called("analyze")
     /\ (config.check_only \/ config.test_mode \/ docstring_issues = <<>>))
        => /\ pc \in {"pf_report", "pf_done"}
           /\ Ops = <<"read", "parse", "analyze">>
           /\ updated_docstrings = <<>>
           /\ disk = origin
           /\ pc = "pf_done" => result = Outcome("Ok", NoContent)

\* test mode alone, on a file with several issues
C16_Witness ==
    /\ pc = "pf_done"
    /\ config.test_mode /\ ~config.check_only
    /\ Len(docstring_issues) >= 2
    /\ result.kind = "Ok"
    /\ ~Called("client")

\* C17: parse and update_content are functions of their arguments: a cycle
\* that runs interleaved with another one, on the same text or on a different
\* one, ends with what update_content gives for its own arguments, and holds
\* the parse of its own text; equal arguments give equal results.
C17_CyclesIndependent ==
    pc = "cy_run" =>
        /\ \A t \in DOMAIN cycles :
              /\ cycles[t].pc # "parse" => cycles[t].parsed_code = parse(cycles[t].content)
              /\ cycles[t].pc = "done" =>
                    cycles[t].result
                        = update_content(cycles[t].content, cycles[t].updated_docstrings)
        /\ \A t, u \in DOMAIN cycles :
              (/\ cycles[t].pc = "done" /\ cycles[u].pc = "done"
               /\ cycles[t].content = cycles[u].content
               /\ cycles[t].updated_docstrings = cycles[u].updated_docstrings)
                  => cycles[t].result = cycles[u].result

\* both cycles finished with a rewritten text, on different texts
C17_Witness ==
    /\ pc = "cy_run"
    /\ cycles[1].pc = "done" /\ cycles[2].pc = "done"
    /\ cycles[1].content # cycles[2].content
    /\ cycles[1].result.kind = "Ok" /\ cycles[2].result.kind = "Ok"
    /\ cycles[1].updated_docstrings # <<>> /\ cycles[2].updated_docstrings # <<>>
    /\ cycles[1].result.content # cycles[1].content
    /\ cycles[2].result.content # cycles[2].content

C19_ReplacesWholeDocstring ==
    (/\ UpdateDone /\ Fresh /\ result.kind = "Ok"
     /\ Len(updated_docstrings) = 1
     /\ parsed_code.items[updated_docstrings[1].item_index + 1].existing_docstring.some)
        => LET u == updated_docstrings[1]
               rows == DocRows(content, u.item_index + 1)
               first == CHOOSE i \in rows : \A j \in rows : i <= j
               last == CHOOSE i \in rows : \A j \in rows : i >= j
               lines == Lines(content)
           IN Lines(result.content)
                  = SubSeq(lines, 1, first - 1)
                        \o indented_docstring(u.indentation, u.new_docstring)
                        \o SubSeq(lines, last + 1, Len(lines))

\* the comment lines that stand right above row, with only empty lines among
\* and below them, top first
RECURSIVE CommentBlock(_, _)
CommentBlock(lines, row) ==
    IF row = 1 THEN <<>>
    ELSE LET l == lines[row - 1] IN
         IF l.pre = NoQ /\ l.post = NoQ /\ IsComment(l.body)
         THEN Append(CommentBlock(lines, row - 1), l)
         ELSE IF IsBlankLine(l) THEN CommentBlock(lines, row - 1)
         ELSE <<>>

\* C20: an item's existing_docstring is the string that is the first
\* statement of its body when there is one; otherwise the text of the comment
\* lines right above its definition when there are any; otherwise absent.
C20_DocstringPrecedence ==
    Parsed =>
        LET stmts == ParseProgram(content).stmts
            at == ItemStmts(stmts, 1)
        IN \A k \in 1..Len(parsed_code.items) :
              LET first == BodyFirst(stmts, at[k])
                  block == CommentBlock(Lines(content), parsed_code.items[k].line_number)
              IN parsed_code.items[k].existing_docstring
                     = (IF first.kind = "str" THEN Some(first.val)
                        ELSE IF block # <<>> THEN Some(JoinChars(block))
                        ELSE None)

\* the encoding of every declared parameter other than a leading self: a bare
\* name, name= with a default value, *name, **name
Declared(args) ==
    LET positional == args.posonlyargs \o args.args
        first == Len(positional) - Len(args.defaults)
    IN {IF i > first THEN positional[i] \o <<"=">> ELSE positional[i] :
            i \in {j \in 1..Len(positional) : positional[j] # pSelf}}
       \cup {IF args.kw_defaults[i].some THEN args.kwonlyargs[i] \o <<"=">>
                                         ELSE args.kwonlyargs[i] :
                 i \in 1..Len(args.kwonlyargs)}
       \cup (IF args.vararg.some THEN {<<"*">> \o args.vararg.val} ELSE {})
       \cup (IF args.kwarg.some THEN {<<"*", "*">> \o args.kwarg.val} ELSE {})

\* C21: the parameters of every function or method item are its header's
\* declared parameters, each with its marker: a bare name without a default
\* value, name= with one (positional or keyword-only), *name for the
\* positional-variadic and **name for the keyword-variadic parameter.
C21_ParameterMarkers ==
    (Parsed /\ parsed_code.ok) =>
        \A k \in 1..Len(parsed_code.items) :
            LET item == parsed_code.items[k]
                args == HeaderOf(Lines(content)[item.line_number].body).args
            IN item.item_type \in {"function", "method"} =>
                  {item.parameters[i] : i \in 1..Len(item.parameters)} \ {pSelf}
                      = Declared(args)

\* the first rewrite of the text returned Ok: new_content is its output
Rewritten == pc \in {"rw_again", "rw_done"}
\* the rewrite of that output has returned too
RewrittenTwice == pc = "rw_done"

IsInfix(block, lines) ==
    \E p \in 0..(Len(lines) - Len(block)) : SubSeq(lines, p + 1, p + Len(block)) = block

\* a documentation text as a block of marked lines behind an indentation
MarkedLine(ind, marker, line) ==
    LET text == trim(LineChars(line)) IN
    Ln(ind, NoQ, IF text = <<>> THEN marker ELSE marker \o <<" ">> \o text, NoQ)
MarkedBlock(lang, ind, doc) ==
    IF lang = "Rust"
    THEN [i \in 1..Len(doc) |-> MarkedLine(ind, <<"/", "/", "/">>, doc[i])]
    ELSE <<Ln(ind, NoQ, <<"/", "*", "*">>, NoQ)>>
         \o [i \in 1..Len(doc) |-> MarkedLine(ind, <<" ", "*">>, doc[i])]
         \o <<Ln(ind, NoQ, <<" ", "*", "/">>, NoQ)>>
\* a documentation text with every line as it is, one level deeper than ind
ShiftedBlock(ind, doc) == [i \in 1..Len(doc) |-> [doc[i] EXCEPT !.ind = ind + 1 + @]]

C23_InsertedBeforeDefinition ==
    (/\ Rewritten
     /\ language \in {"Rust", "JavaScript"}
     /\ Len(updated_docstrings) = 1
     /\ ~parsed_code.items[updated_docstrings[1].item_index + 1].existing_docstring.some)
        => LET update == updated_docstrings[1]
               item == parsed_code.items[update.item_index + 1]
               lines == Lines(content)
           IN Lines(new_content)
                  = SubSeq(lines, 1, item.line_number - 1)
                    \o MarkedBlock(language, item.indentation, update.new_docstring)
                    \o SubSeq(lines, item.line_number, Len(lines))

\* the row of the last line that is not empty above row (0: none)
RECURSIVE LastTextRow(_, _)
LastTextRow(lines, row) ==
    IF row <= 1 THEN 0
    ELSE IF trim(LineChars(lines[row - 1])) # <<>> THEN row - 1
    ELSE LastTextRow(lines, row - 1)

\* the number of lines that open a JSDoc block
JsDocBlocks(lines) ==
    Cardinality({i \in 1..Len(lines) : HasPrefix(trim(LineChars(lines[i])), <<"/", "*", "*">>)})

\* C24: when the JavaScript rewriter is given one update for a definition
\* whose nearest line of text above it closes a JSDoc block, of one line or
\* of several, the new block takes the place of that block: the output
\* holds the new block and as many JSDoc blocks as the input.
C24_JsDocReplaced ==
    (/\ Rewritten
     /\ language = "JavaScript"
     /\ Len(updated_docstrings) = 1)
        => LET update == updated_docstrings[1]
               item == parsed_code.items[update.item_index + 1]
               lines == Lines(content)
               above == LastTextRow(lines, item.line_number)
           IN (above # 0 /\ HasSuffix(trim(LineChars(lines[above])), <<"*", "/">>))
                 => /\ IsInfix(MarkedBlock(language, item.indentation, update.new_docstring),
                               Lines(new_content))
                    /\ JsDocBlocks(Lines(new_content)) = JsDocBlocks(lines)

\* a line of code: not empty and no part of a comment
IsCodeText(text) ==
    /\ text # <<>>
    /\ ~HasPrefix(text, <<"/", "/">>)
    /\ ~HasPrefix(text, <<"/", "*">>)
    /\ ~HasPrefix(text, <<"*">>)

\* C25: in the Rust and JavaScript extractors an item whose nearest line of
\* text above its definition is a line of code has no existing_docstring:
\* a comment block further up, with code between it and the definition,
\* is not this item's.
C25_NoCodeBetween ==
    (pc \in {"rw_again", "rw_done", "rw_failed"} /\ language \in {"Rust", "JavaScript"}) =>
        \A k \in 1..Len(parsed_code.items) :
            LET item == parsed_code.items[k]
                lines == Lines(content)
                above == LastTextRow(lines, item.line_number)
            IN (above # 0 /\ IsCodeText(trim(LineChars(lines[above]))))
                  => ~item.existing_docstring.some

\* C26: handing a rewriter its own output with the same update list succeeds
\* and returns that output unchanged: the second pass replaces what the
\* first one wrote and adds no block.
C26_Idempotent ==
    RewrittenTwice => result = Outcome("Ok", new_content)

\* C27: the output of the Python rewriter parses to the items of the input,
\* one for one: the same item_type, name, parent and parameters at every
\* index, a docstring on every item an update names and the docstring it had
\* on every other item; also for a header over several lines and for a body
\* on the definition line.
C27_StructurePreserved ==
    (Rewritten /\ language = "Python") =>
        LET after == parse(new_content)
            Targeted(k) == \E i \in 1..Len(updated_docstrings) :
                               updated_docstrings[i].item_index = k - 1
        IN /\ after.ok
           /\ Len(after.items) = Len(parsed_code.items)
           /\ \A k \in 1..Len(after.items) :
                 /\ after.items[k].item_type = parsed_code.items[k].item_type
                 /\ after.items[k].name = parsed_code.items[k].name
                 /\ after.items[k].parent = parsed_code.items[k].parent
                 /\ after.items[k].parameters = parsed_code.items[k].parameters
                 /\ IF Targeted(k) THEN after.items[k].existing_docstring.some
                    ELSE after.items[k].existing_docstring
                             = parsed_code.items[k].existing_docstring

\* C28: two updates for the same item leave one documentation block for it,
\* with the text of the second: the lines of the output are the lines up to
\* the definition line, the second update's lines, and the lines behind the
\* docstring the item had (behind the definition line when it had none).
C28_LastOfSameItemWins ==
    (/\ UpdateDone /\ Fresh /\ result.kind = "Ok"
     /\ Len(updated_docstrings) = 2
     /\ updated_docstrings[1].item_index = updated_docstrings[2].item_index)
        => LET u == updated_docstrings[2]
               item == parsed_code.items[u.item_index + 1]
               rows == DocRows(content, u.item_index + 1) \cup {item.line_number}
               last == CHOOSE i \in rows : \A j \in rows : i >= j
               lines == Lines(content)
           IN Lines(result.content)
                  = SubSeq(lines, 1, item.line_number)
                        \o ShiftedBlock(item.indentation, u.new_docstring)
                        \o SubSeq(lines, last + 1, Len(lines))

\* C29: for a text that parses, update_content with an empty update list
\* returns Ok with the text itself, character for character, final newline
\* included.
C29_EmptyUpdateListIsIdentity ==
    (UpdateDone /\ updated_docstrings = <<>> /\ parse(content).ok) =>
        /\ result.kind = "Ok"
        /\ ContentChars(result.content) = ContentChars(content)
        /\ result.content.nl = content.nl

\* a text of several lines that ends in a newline went through with no update
C29_Witness ==
    /\ UpdateDone
    /\ updated_docstrings = <<>>
    /\ parse(content).ok
    /\ result.kind = "Ok"
    /\ content.nl
    /\ Len(Lines(content)) >= 2


\* ------------------------------------------------------------------ main over several files
InMain == pc \in {"mn_loop", "mn_done"}
MainFailed == result.kind \notin {"None", "Ok"}
ReadOf(i) == {p \in 1..Len(events) : events[p].op = "read" /\ events[p].index = i}
WritesOf(i) == {p \in 1..Len(events) : events[p].op = "write" /\ events[p].index = i}
WritesTo(path) == {p \in 1..Len(events) : events[p].op = "write" /\ files[events[p].index] = path}
\* argument j has been processed and process_file returned Ok for it
Succeeded(j) == j \in 1..file_index /\ (j < file_index \/ ~MainFailed)
TextRead(j) == events[CHOOSE p \in ReadOf(j) : TRUE].text
\* what the path of argument j holds once process_file has returned Ok for it
TextLeft(j) == IF WritesOf(j) = {} THEN TextRead(j)
               ELSE events[CHOOSE p \in WritesOf(j) : TRUE].text
Rewritten_file(text) == updated_content(text).content

\* the arguments are read once each, in argument order, up to the one in hand
ReadInArgumentOrder ==
    /\ file_index <= Len(files)
    /\ \A i \in 1..Len(files) : Cardinality(ReadOf(i)) = IF i <= file_index THEN 1 ELSE 0
    /\ \A p, q \in 1..Len(events) : p < q => events[p].index <= events[q].index
\* a write comes straight after the read of the same argument
OneFileAtATime ==
    \A p \in 1..Len(events) :
        events[p].op = "write" => /\ p > 1
                                  /\ events[p - 1].op = "read"
                                  /\ events[p - 1].index = events[p].index
\* an error ends the run at the file that failed: nothing after it is touched
ErrorEndsTheRun ==
    MainFailed =>
        /\ pc = "mn_done"
        /\ file_index >= 1
        /\ \A i \in (file_index + 1)..Len(files) : ReadOf(i) = {} /\ WritesOf(i) = {}
\* every file done with that needed changes was written once, whole, and holds
\* that text until the next argument naming the same path
WrittenInFull ==
    \A j \in 1..Len(files) :
        Succeeded(j) =>
            /\ IF NeedsChanges(TextRead(j), config)
               THEN /\ Cardinality(WritesOf(j)) = 1
                    /\ TextLeft(j) = Rewritten_file(TextRead(j))
               ELSE WritesOf(j) = {}
            /\ LET later == {k \in (j + 1)..file_index : files[k] = files[j]} IN
               IF later = {} THEN file_system[files[j]] = TextLeft(j)
               ELSE LET next == CHOOSE k \in later : \A m \in later : k <= m
                    IN TextRead(next) \in {TextLeft(j), NoContent}
OncePerArgument == \A i \in 1..Len(files) : Cardinality(WritesOf(i)) <= 1
OncePerPath == \A path \in Paths : Cardinality(WritesTo(path)) <= 1

\* C30 as stated: main handles the files one at a time in argument order, an
\* error of process_file for file k ends the run at once with the files after k
\* neither read nor written and the files before k that needed changes written
\* in full, and no file is written more than once in a run.
C30_NoFileWrittenTwice ==
    InMain => /\ ReadInArgumentOrder
              /\ OneFileAtATime
              /\ ErrorEndsTheRun
              /\ WrittenInFull
              /\ OncePerPath

\* C30, amended: main handles the arguments one at a time in argument order, an
\* error of process_file for argument k ends the run at once with the arguments
\* after k neither read nor written and the arguments before k that needed
\* changes written in full, and no argument is written more than once: a path
\* named twice is processed twice and may be written twice.
C30_ArgumentsInOrder ==
    InMain => /\ ReadInArgumentOrder
              /\ OneFileAtATime
              /\ ErrorEndsTheRun
              /\ WrittenInFull
              /\ OncePerArgument

\* the second of three files failed after the first was rewritten
C30_Witness ==
    /\ pc = "mn_done"
    /\ MainFailed
    /\ Len(files) = 3
    /\ file_index = 2
    /\ WritesOf(1) # {}
    /\ NeedsChanges(TextRead(1), config)

====
